---- MODULE Spec2Model ----
(***************************************************************************)
(* Scanner worker of AWSDataScanner: the queue consumer, the per-object    *)
(* processing state machine, the streaming reader and the detectors, with  *)
(* the PostgreSQL tables and the SQS queue they act on.                    *)
(*                                                                         *)
(* Text is a sequence of code points, a byte string a sequence of 0..255.  *)
(* Offsets named i, j, pos are Python offsets (0-based): the character at  *)
(* offset i of t is t[i + 1].                                              *)
(***************************************************************************)
EXTENDS Integers, Sequences, FiniteSets, TLC

Max(a, b) == IF a >= b THEN a ELSE b

Min(a, b) == IF a <= b THEN a ELSE b

\* Python s[a:b] for 0 <= a, b (clamped to the length as Python does).
Slice(s, a, b) == SubSeq(s, Min(a, Len(s)) + 1, Min(b, Len(s)))

\* ------------------------------------------------------------------------
\* Character classes of the regular expressions (detectors.py:36-43)
\* ------------------------------------------------------------------------
DIGIT == 48..57

UPPER == 65..90

LOWER == 97..122

\* Python's \s on str, restricted to Latin-1: [ \t\n\r\f\v], the separators
\* 0x1c-0x1f, NEL (0x85) and NBSP (0xa0).
SPACE == {9, 10, 11, 12, 13, 28, 29, 30, 31, 32, 133, 160}

\* Python's \w on str, restricted to Latin-1: alphanumerics and underscore.
WORD == DIGIT \cup UPPER \cup LOWER \cup {95, 170, 178, 179, 181, 185, 186, 188, 189, 190}
            \cup (192..214) \cup (216..246) \cup (248..255)

\* [-\s]
SEP_DASH_SPACE == {45} \cup SPACE

\* [-.\s]
SEP_DASH_DOT_SPACE == {45, 46} \cup SPACE

\* [0-9A-Z]
ALNUM_UPPER == DIGIT \cup UPPER

\* [A-Za-z0-9/+=]
BASE64 == UPPER \cup LOWER \cup DIGIT \cup {47, 43, 61}

\* [A-Za-z0-9._%+-]
EMAIL_LOCAL == UPPER \cup LOWER \cup DIGIT \cup {46, 95, 37, 43, 45}

\* [A-Za-z0-9.-]
EMAIL_DOMAIN == UPPER \cup LOWER \cup DIGIT \cup {46, 45}

\* [A-Z|a-z]
EMAIL_TLD == UPPER \cup LOWER \cup {124}

\* ------------------------------------------------------------------------
\* Regular expression primitives
\* ------------------------------------------------------------------------
\* n characters of class cls at offset i.
RunOf(t, i, n, cls) == i + n <= Len(t) /\ \A k \in (i + 1)..(i + n) : t[k] \in cls

\* The offset after an optional character of class cls at offset i (greedy).
SkipOpt(t, i, cls) == IF i < Len(t) /\ t[i + 1] \in cls THEN i + 1 ELSE i

\* The offset after an optional literal character c at offset i.
SkipLit(t, i, c) == SkipOpt(t, i, {c})

\* The length of the longest run of class cls at offset i.
RunLen(t, i, cls) ==
    IF i >= Len(t) THEN 0
    ELSE LET stops == {k \in (i + 1)..Len(t) : t[k] \notin cls}
         IN  IF stops = {} THEN Len(t) - i
             ELSE (CHOOSE k \in stops : \A m \in stops : k <= m) - 1 - i

\* \b at offset i: exactly one of the characters around it is a word character.
WordBoundary(t, i) ==
    LET before == i > 0 /\ i <= Len(t) /\ t[i] \in WORD
        after  == i < Len(t) /\ t[i + 1] \in WORD
    IN  before # after

\* Each Match* gives the end offset of the pattern's match starting at offset
\* i, or -1 when the pattern does not match there.

\* \b\d{3}[-\s]?\d{2}[-\s]?\d{4}\b
MatchSsn(t, i) ==
    LET b == SkipOpt(t, i + 3, SEP_DASH_SPACE)
        d == SkipOpt(t, b + 2, SEP_DASH_SPACE)
    IN  IF /\ WordBoundary(t, i)
           /\ RunOf(t, i, 3, DIGIT)
           /\ RunOf(t, b, 2, DIGIT)
           /\ RunOf(t, d, 4, DIGIT)
           /\ WordBoundary(t, d + 4)
        THEN d + 4 ELSE -1

\* \b(?:\d{4}[-\s]?){3}\d{4}\b
MatchCardGrouped(t, i) ==
    LET a == SkipOpt(t, i + 4, SEP_DASH_SPACE)
        b == SkipOpt(t, a + 4, SEP_DASH_SPACE)
        c == SkipOpt(t, b + 4, SEP_DASH_SPACE)
    IN  IF /\ WordBoundary(t, i)
           /\ RunOf(t, i, 4, DIGIT)
           /\ RunOf(t, a, 4, DIGIT)
           /\ RunOf(t, b, 4, DIGIT)
           /\ RunOf(t, c, 4, DIGIT)
           /\ WordBoundary(t, c + 4)
        THEN c + 4 ELSE -1

\* \b\d{15,16}\b (greedy: 16 digits are tried before 15)
MatchCardRun(t, i) ==
    IF ~WordBoundary(t, i) THEN -1
    ELSE IF RunOf(t, i, 16, DIGIT) /\ WordBoundary(t, i + 16) THEN i + 16
    ELSE IF RunOf(t, i, 15, DIGIT) /\ WordBoundary(t, i + 15) THEN i + 15
    ELSE -1

\* \b(?:\d{4}[-\s]?){3}\d{4}\b|\b\d{15,16}\b (the first alternative wins)
MatchCreditCard(t, i) ==
    IF MatchCardGrouped(t, i) >= 0 THEN MatchCardGrouped(t, i) ELSE MatchCardRun(t, i)

\* \b(AKIA[0-9A-Z]{16})\b
MatchAwsAccessKey(t, i) ==
    IF /\ WordBoundary(t, i)
       /\ i + 4 <= Len(t)
       /\ SubSeq(t, i + 1, i + 4) = <<65, 75, 73, 65>>
       /\ RunOf(t, i + 4, 16, ALNUM_UPPER)
       /\ WordBoundary(t, i + 20)
    THEN i + 20 ELSE -1

\* \b([A-Za-z0-9/+=]{40})\b
MatchAwsSecretKey(t, i) ==
    IF WordBoundary(t, i) /\ RunOf(t, i, 40, BASE64) /\ WordBoundary(t, i + 40)
    THEN i + 40 ELSE -1

\* \b[A-Za-z0-9._%+-]+@[A-Za-z0-9.-]+\.[A-Z|a-z]{2,}\b
\* The local part can only be the whole run before the @. The domain and the
\* top-level part are greedy: the longest domain, then the longest top-level
\* part, for which the rest of the pattern matches.
MatchEmail(t, i) ==
    LET l    == RunLen(t, i, EMAIL_LOCAL)
        j    == i + l + 1
        dmax == RunLen(t, j, EMAIL_DOMAIN)
        ends == {<<d, m>> \in (1..dmax) \X (2..Len(t)) :
                    /\ j + d < Len(t)
                    /\ t[j + d + 1] = 46
                    /\ m <= RunLen(t, j + d + 1, EMAIL_TLD)
                    /\ WordBoundary(t, j + d + 1 + m)}
        best == CHOOSE e \in ends : \A f \in ends :
                    e[1] > f[1] \/ (e[1] = f[1] /\ e[2] >= f[2])
    IN  IF /\ WordBoundary(t, i)
           /\ l >= 1
           /\ i + l < Len(t)
           /\ t[i + l + 1] = 64
           /\ ends # {}
        THEN j + best[1] + 1 + best[2] ELSE -1

\* \(?\d{3}\)?[-.\s]?\d{3}[-.\s]?\d{4}\b from offset i
MatchPhoneBody(t, i) ==
    LET a == SkipLit(t, i, 40)
        b == SkipLit(t, a + 3, 41)
        c == SkipOpt(t, b, SEP_DASH_DOT_SPACE)
        d == SkipOpt(t, c + 3, SEP_DASH_DOT_SPACE)
    IN  IF /\ RunOf(t, a, 3, DIGIT)
           /\ RunOf(t, c, 3, DIGIT)
           /\ RunOf(t, d, 4, DIGIT)
           /\ WordBoundary(t, d + 4)
        THEN d + 4 ELSE -1

\* \b(?:\+?1[-.\s]?)?\(?\d{3}\)?[-.\s]?\d{3}[-.\s]?\d{4}\b
\* The optional country code is tried first; without it the body must match
\* at i itself.
MatchPhone(t, i) ==
    LET p      == SkipLit(t, i, 43)
        hasOne == p < Len(t) /\ t[p + 1] = 49
        q      == SkipOpt(t, p + 1, SEP_DASH_DOT_SPACE)
        qNoSep == p + 1
    IN  IF ~WordBoundary(t, i) THEN -1
        ELSE IF hasOne /\ MatchPhoneBody(t, q) >= 0 THEN MatchPhoneBody(t, q)
        ELSE IF hasOne /\ MatchPhoneBody(t, qNoSep) >= 0 THEN MatchPhoneBody(t, qNoSep)
        ELSE MatchPhoneBody(t, i)

Match(pattern, t, i) ==
    CASE pattern = "ssn"            -> MatchSsn(t, i)
      [] pattern = "credit_card"    -> MatchCreditCard(t, i)
      [] pattern = "aws_access_key" -> MatchAwsAccessKey(t, i)
      [] pattern = "aws_secret_key" -> MatchAwsSecretKey(t, i)
      [] pattern = "email"          -> MatchEmail(t, i)
      [] pattern = "phone_us"       -> MatchPhone(t, i)

\* re.finditer: the non-overlapping matches from left to right, as
\* [start, end] spans; the search resumes at the end of each match.
RECURSIVE FindIter(_, _, _)
FindIter(pattern, t, pos) ==
    LET starts == {i \in pos..(Len(t) - 1) : Match(pattern, t, i) > i}
        first  == CHOOSE i \in starts : \A k \in starts : i <= k
    IN  IF starts = {} THEN <<>>
        ELSE <<[start |-> first, end |-> Match(pattern, t, first)]>>
                 \o FindIter(pattern, t, Match(pattern, t, first))

\* ------------------------------------------------------------------------
\* Detectors (detectors.py)
\* ------------------------------------------------------------------------
CONTEXT_WINDOW == 50

\* str.strip(): leading and trailing whitespace removed.
Strip(t) ==
    LET lead  == RunLen(t, 0, SPACE)
        keeps == {k \in 1..Len(t) : t[k] \notin SPACE}
        last  == IF keeps = {} THEN 0 ELSE CHOOSE k \in keeps : \A m \in keeps : k >= m
    IN  IF keeps = {} THEN <<>> ELSE SubSeq(t, lead + 1, last)

\* re.sub(cls, '', value)
Remove(value, cls) == SelectSeq(value, LAMBDA c : c \notin cls)

\* str.startswith
StartsWith(t, prefix) == Len(t) >= Len(prefix) /\ SubSeq(t, 1, Len(prefix)) = prefix

\* str.lower() on Latin-1 text.
Lower(t) ==
    [k \in 1..Len(t) |->
        IF t[k] \in UPPER \/ t[k] \in (192..214) \/ t[k] \in (216..222)
        THEN t[k] + 32 ELSE t[k]]

\* SHA-256 is modelled as an injective digest: the digest of v is the record
\* holding v, so two values have equal digests exactly when they are equal.
hash_value(value) == [sha256 |-> value]

get_context(text, start, end) ==
    LET context_start == Max(0, start - CONTEXT_WINDOW)
        context_end   == Min(Len(text), end + CONTEXT_WINDOW)
        context       == Strip(Slice(text, context_start, context_end))
    IN  IF Len(context) > 200
        THEN SubSeq(context, 1, 200) \o <<46, 46, 46>>
        ELSE context

RECURSIVE LuhnSum(_, _)
LuhnSum(reverse_digits, k) ==
    IF k > Len(reverse_digits) THEN 0
    ELSE LET digit   == reverse_digits[k]
             doubled == IF digit * 2 > 9 THEN digit * 2 - 9 ELSE digit * 2
         IN  (IF (k - 1) % 2 = 1 THEN doubled ELSE digit) + LuhnSum(reverse_digits, k + 1)

luhn_check(card_number) ==
    LET digits         == [k \in 1..Len(SelectSeq(card_number, LAMBDA c : c \in DIGIT)) |->
                              SelectSeq(card_number, LAMBDA c : c \in DIGIT)[k] - 48]
        reverse_digits == [k \in 1..Len(digits) |-> digits[Len(digits) + 1 - k]]
    IN  IF Len(digits) < 13 \/ Len(digits) > 19 THEN FALSE
        ELSE LuhnSum(reverse_digits, 1) % 10 = 0

NewFinding(type, text, line_number, m, digest_of, conf) ==
    [finding_type |-> type,
     value        |-> Slice(text, m.start, m.end),
     value_hash   |-> hash_value(digest_of),
     line_number  |-> line_number,
     column_start |-> m.start,
     column_end   |-> m.end,
     context      |-> get_context(text, m.start, m.end),
     confidence   |-> conf]

\* The findings of the matches that pass Keep(match), in match order.
Collect(matches, Keep(_), Make(_)) ==
    LET kept == SelectSeq(matches, Keep)
    IN  [k \in 1..Len(kept) |-> Make(kept[k])]

\* A detector that reports every nine-digit match as an SSN.
detect_ssn_unchecked(text, line_number) ==
    LET Normalized(m) == Remove(Slice(text, m.start, m.end), SEP_DASH_SPACE)
        Keep(m) == Len(Normalized(m)) = 9
        Make(m) == NewFinding("ssn", text, line_number, m, Normalized(m), "high")
    IN  Collect(FindIter("ssn", text, 0), Keep, Make)

detect_ssn(text, line_number) ==
    LET Normalized(m) == Remove(Slice(text, m.start, m.end), SEP_DASH_SPACE)
        Keep(m) == /\ Len(Normalized(m)) = 9
                   /\ \A k \in 1..9 : Normalized(m)[k] \in DIGIT
                   /\ ~StartsWith(Normalized(m), <<48, 48, 48>>)
                   /\ ~StartsWith(Normalized(m), <<54, 54, 54>>)
                   /\ ~StartsWith(Normalized(m), <<57>>)
        Make(m) == NewFinding("ssn", text, line_number, m, Normalized(m), "high")
    IN  Collect(FindIter("ssn", text, 0), Keep, Make)

detect_credit_card(text, line_number) ==
    LET Normalized(m) == Remove(Slice(text, m.start, m.end), SEP_DASH_SPACE)
        Keep(m) == luhn_check(Normalized(m))
        Make(m) == NewFinding("credit_card", text, line_number, m, Normalized(m), "high")
    IN  Collect(FindIter("credit_card", text, 0), Keep, Make)

detect_aws_keys(text, line_number) ==
    LET Value(m) == Slice(text, m.start, m.end)
        Every(m) == TRUE
        Mixed(m) == /\ \E k \in 1..Len(Value(m)) : Value(m)[k] \in UPPER
                    /\ \E k \in 1..Len(Value(m)) : Value(m)[k] \in LOWER
                    /\ \E k \in 1..Len(Value(m)) : Value(m)[k] \in DIGIT
        MakeAccess(m) == NewFinding("aws_access_key", text, line_number, m, Value(m), "high")
        MakeSecret(m) == NewFinding("aws_secret_key", text, line_number, m, Value(m), "medium")
    IN  Collect(FindIter("aws_access_key", text, 0), Every, MakeAccess)
            \o Collect(FindIter("aws_secret_key", text, 0), Mixed, MakeSecret)

\* A detector that hashes an e-mail address as it is written.
detect_email_case_sensitive(text, line_number) ==
    LET Value(m) == Slice(text, m.start, m.end)
        Keep(m) == \E k \in 1..Len(Value(m)) : Value(m)[k] = 64
        Make(m) == NewFinding("email", text, line_number, m, Value(m), "high")
    IN  Collect(FindIter("email", text, 0), Keep, Make)

detect_email(text, line_number) ==
    LET Value(m) == Slice(text, m.start, m.end)
        \* value.split('@')[1]: the text between the first and the second @
        AfterAt(m) ==
            LET v     == Value(m)
                first == CHOOSE k \in 1..Len(v) : v[k] = 64 /\ \A j \in 1..(k - 1) : v[j] # 64
                rest  == SubSeq(v, first + 1, Len(v))
            IN  SubSeq(rest, 1, RunLen(rest, 0, (0..255) \ {64}))
        Keep(m) == /\ \E k \in 1..Len(Value(m)) : Value(m)[k] = 64
                   /\ \E k \in 1..Len(AfterAt(m)) : AfterAt(m)[k] = 46
        Make(m) == NewFinding("email", text, line_number, m, Lower(Value(m)), "high")
    IN  Collect(FindIter("email", text, 0), Keep, Make)

detect_phone(text, line_number) ==
    LET Stripped(m) == Remove(Slice(text, m.start, m.end), SEP_DASH_DOT_SPACE \cup {40, 41})
        Normalized(m) == IF StartsWith(Stripped(m), <<49>>)
                         THEN SubSeq(Stripped(m), 2, Len(Stripped(m)))
                         ELSE Stripped(m)
        Keep(m) == /\ Len(Normalized(m)) = 10
                   /\ \A k \in 1..10 : Normalized(m)[k] \in DIGIT
                   /\ ~StartsWith(Normalized(m), <<48, 48, 48>>)
                   /\ ~StartsWith(Normalized(m), <<53, 53, 53>>)
        Make(m) == NewFinding("phone_us", text, line_number, m, Normalized(m), "high")
    IN  Collect(FindIter("phone_us", text, 0), Keep, Make)

scan_line(line, line_number) ==
    detect_ssn(line, line_number)
        \o detect_credit_card(line, line_number)
        \o detect_aws_keys(line, line_number)
        \o detect_email(line, line_number)
        \o detect_phone(line, line_number)

\* ------------------------------------------------------------------------
\* Decoding and line reassembly of the streaming reader (scanner.py)
\* ------------------------------------------------------------------------
\* Continuation bytes of UTF-8.
UTF8_CONT == 128..191

\* The length of the UTF-8 sequence a lead byte starts, 0 for a byte that
\* starts none (a continuation byte, 0xC0, 0xC1, 0xF5..0xFF).
Utf8Len(lead) ==
    IF lead <= 127 THEN 1
    ELSE IF lead \in 194..223 THEN 2
    ELSE IF lead \in 224..239 THEN 3
    ELSE IF lead \in 240..244 THEN 4
    ELSE 0

\* The second byte of a sequence: overlong forms, surrogates and code points
\* above U+10FFFF are rejected.
Utf8SecondOk(lead, second) ==
    CASE lead = 224 -> second \in 160..191
      [] lead = 237 -> second \in 128..159
      [] lead = 240 -> second \in 144..191
      [] lead = 244 -> second \in 128..143
      [] OTHER      -> second \in UTF8_CONT

\* In well-formed UTF-8 the sequences start exactly at the bytes that are not
\* continuation bytes.
Utf8Starts(bytes) == {k \in 1..Len(bytes) : bytes[k] \notin UTF8_CONT}

\* bytes.decode('utf-8') succeeds.
Utf8Valid(bytes) ==
    /\ Len(bytes) > 0 => bytes[1] \notin UTF8_CONT
    /\ \A k \in Utf8Starts(bytes) :
          LET n == Utf8Len(bytes[k])
          IN  /\ n > 0
              /\ k + n - 1 <= Len(bytes)
              /\ \A j \in (k + 1)..(k + n - 1) : bytes[j] \in UTF8_CONT
              /\ n > 1 => Utf8SecondOk(bytes[k], bytes[k + 1])
              /\ k + n <= Len(bytes) => bytes[k + n] \notin UTF8_CONT

Utf8CodePoint(bytes, k) ==
    LET n == Utf8Len(bytes[k])
    IN  CASE n = 1 -> bytes[k]
          [] n = 2 -> (bytes[k] - 192) * 64 + (bytes[k + 1] - 128)
          [] n = 3 -> (bytes[k] - 224) * 4096 + (bytes[k + 1] - 128) * 64
                          + (bytes[k + 2] - 128)
          [] n = 4 -> (bytes[k] - 240) * 262144 + (bytes[k + 1] - 128) * 4096
                          + (bytes[k + 2] - 128) * 64 + (bytes[k + 3] - 128)

\* The elements of a set of positions in increasing order.
Ordered(positions) ==
    [i \in 1..Cardinality(positions) |->
        CHOOSE k \in positions : Cardinality({j \in positions : j < k}) = i - 1]

\* bytes.decode('utf-8') of well-formed bytes.
Utf8Decode(bytes) ==
    LET starts == Ordered(Utf8Starts(bytes))
    IN  [i \in 1..Len(starts) |-> Utf8CodePoint(bytes, starts[i])]

\* bytes.decode('latin-1'): every byte is the code point of that value; it
\* cannot fail.
Latin1Decode(bytes) == bytes

\* A decoder that skips a chunk that is not UTF-8.
DecodeChunk_drops(chunk) == IF Utf8Valid(chunk) THEN Utf8Decode(chunk) ELSE <<>>

\* scanner.py:131-139: UTF-8, and Latin-1 for a chunk that is not UTF-8.
DecodeChunk(chunk) == IF Utf8Valid(chunk) THEN Utf8Decode(chunk) ELSE Latin1Decode(chunk)

\* str.split('\n'): the fragments between the newlines, one more than there
\* are newlines.
SplitLines(buffer) ==
    LET newlines == Ordered({k \in 1..Len(buffer) : buffer[k] = 10})
        From(i)  == IF i = 1 THEN 1 ELSE newlines[i - 1] + 1
        To(i)    == IF i = Len(newlines) + 1 THEN Len(buffer) ELSE newlines[i] - 1
    IN  [i \in 1..(Len(newlines) + 1) |-> SubSeq(buffer, From(i), To(i))]

\* scanner.py:148-151: the detector on each complete line, numbered on from
\* line_number.
RECURSIVE ScanLines(_, _, _)
ScanLines(lines, k, line_number) ==
    IF k > Len(lines) THEN <<>>
    ELSE scan_line(lines[k], line_number + 1) \o ScanLines(lines, k + 1, line_number + 1)

\* scanner.py:130-151: one iteration of the chunk loop on the reader's state
\* [line_number, buffer, findings].
ProcessChunk(st, chunk) ==
    LET text     == DecodeChunk(chunk)
        lines    == SplitLines(st.buffer \o text)
        complete == SubSeq(lines, 1, Len(lines) - 1)
    IN  [line_number |-> st.line_number + Len(complete),
         buffer      |-> lines[Len(lines)],
         findings    |-> st.findings \o ScanLines(complete, 1, st.line_number)]

\* scanner.py:153-157: the carry buffer left after the last chunk.
ProcessRemaining(st) ==
    IF st.buffer # <<>>
    THEN [line_number |-> st.line_number + 1,
          buffer      |-> st.buffer,
          findings    |-> st.findings \o scan_line(st.buffer, st.line_number + 1)]
    ELSE st

\* ------------------------------------------------------------------------
\* Configuration (config.py) and the world the worker runs in
\* ------------------------------------------------------------------------
\* MAX_FILE_SIZE and CHUNK_SIZE are read from the environment; the model runs
\* the worker with small values so that files of a few bytes are oversize and
\* span several chunks.
MAX_FILE_SIZE == 24

CHUNK_SIZE == 8

\* The Range request and the read of is_text_file (scanner.py:53, 56).
SAMPLE_SIZE == 1024

\* The worker processes sharing the queue and the database.
Workers == {"w1", "w2"}

\* config.py:26: the most messages a poll asks for (1 unless the environment
\* sets it).
MAX_MESSAGES == 2

\* A message is received at most MaxReceive times (the queue's redrive policy
\* then moves it to the dead-letter queue).
MaxReceive == 2

\* At most MaxFaults requests (to the database, the object store or the
\* queue) fail in a run.
MaxFaults == 1

NULL == "NULL"

\* No row: what a query that finds nothing returns.
NoRow == [object_id |-> 0]

\* The characters of the S3 keys (TLA+ strings are opaque).
KeyChars ==
    [k \in {"a.txt", "blob", "big.log", "empty.txt", "note", "void", "ghost.txt",
             "UP.TXT"} |->
        CASE k = "a.txt"     -> <<97, 46, 116, 120, 116>>
          [] k = "UP.TXT"    -> <<85, 80, 46, 84, 88, 84>>
          [] k = "blob"      -> <<98, 108, 111, 98>>
          [] k = "big.log"   -> <<98, 105, 103, 46, 108, 111, 103>>
          [] k = "empty.txt" -> <<101, 109, 112, 116, 121, 46, 116, 120, 116>>
          [] k = "note"      -> <<110, 111, 116, 101>>
          [] k = "void"      -> <<118, 111, 105, 100>>
          [] k = "ghost.txt" -> <<103, 104, 111, 115, 116, 46, 116, 120, 116>>]

\* The objects of the bucket, by key.
\*   a.txt      "123-45-6789\nx a@b.co\nend"  (an SSN on line 1, an email on
\*              line 2; MAX_FILE_SIZE bytes exactly)
\*   blob       bytes with a NUL
\*   big.log    MAX_FILE_SIZE + 1 bytes
\*   empty.txt  no bytes
\*   note       "abcdef é a@b.co" in UTF-8  (no extension; two chunks, the
\*              two bytes of é on either side of the chunk boundary)
\*   void       no bytes, no extension
S3Objects ==
    [k \in {"a.txt", "blob", "big.log", "empty.txt", "note", "void"} |->
        CASE k = "a.txt"     -> <<49, 50, 51, 45, 52, 53, 45, 54, 55, 56, 57, 10,
                                  120, 32, 97, 64, 98, 46, 99, 111, 10, 101, 110, 100>>
          [] k = "blob"      -> <<137, 80, 78, 71, 0, 1>>
          [] k = "big.log"   -> [i \in 1..(MAX_FILE_SIZE + 1) |-> 120]
          [] k = "empty.txt" -> <<>>
          [] k = "note"      -> <<97, 98, 99, 100, 101, 102, 32, 195, 169, 32,
                                  97, 64, 98, 46, 99, 111>>
          [] k = "void"      -> <<>>]

\* The job_objects rows the orchestration layer created (object_id -> key).
ObjectKeys ==
    [o \in 1..6 |->
        CASE o = 1 -> "a.txt" [] o = 2 -> "blob" [] o = 3 -> "big.log"
          [] o = 4 -> "empty.txt" [] o = 5 -> "note" [] o = 6 -> "void"]

ObjectIds == DOMAIN ObjectKeys

\* The bodies of the messages that can be in the queue: a work item for each
\* job object (message o for object o), one for a key without a job object,
\* and malformed bodies: text that is not JSON, an object without s3_key, a
\* number, null, a string, and an array of the three field names.
WorkItem(key) ==
    [json |-> "object",
     fields |-> [job_id |-> "j1", s3_bucket |-> "bucket", s3_key |-> key]]

MessageBody ==
    [m \in 1..13 |->
        CASE m \in ObjectIds -> WorkItem(ObjectKeys[m])
          [] m = 7  -> WorkItem("ghost.txt")
          [] m = 8  -> [json |-> "invalid"]
          [] m = 9  -> [json |-> "object",
                        fields |-> [job_id |-> "j1", s3_bucket |-> "bucket"]]
          [] m = 10 -> [json |-> "number"]
          [] m = 11 -> [json |-> "null"]
          [] m = 12 -> [json |-> "string", holds |-> {}]
          [] m = 13 -> [json |-> "array", holds |-> {"job_id", "s3_bucket", "s3_key"}]]

MessageIds == DOMAIN MessageBody

\* ------------------------------------------------------------------------
\* Gating and the scan (scanner.py)
\* ------------------------------------------------------------------------
text_extensions ==
    {<<46, 116, 120, 116>>, <<46, 108, 111, 103>>, <<46, 99, 115, 118>>,
     <<46, 106, 115, 111, 110>>, <<46, 120, 109, 108>>, <<46, 104, 116, 109, 108>>,
     <<46, 104, 116, 109>>, <<46, 109, 100>>, <<46, 112, 121>>, <<46, 106, 115>>,
     <<46, 106, 97, 118, 97>>, <<46, 99>>, <<46, 99, 112, 112>>, <<46, 104>>,
     <<46, 115, 104>>, <<46, 121, 109, 108>>, <<46, 121, 97, 109, 108>>,
     <<46, 116, 111, 109, 108>>, <<46, 105, 110, 105>>, <<46, 99, 102, 103>>,
     <<46, 99, 111, 110, 102>>, <<46, 115, 113, 108>>}

\* str.endswith
EndsWith(t, suffix) ==
    Len(t) >= Len(suffix) /\ SubSeq(t, Len(t) - Len(suffix) + 1, Len(t)) = suffix

\* scanner.py:45: the key ends in an allow-listed extension.
HasTextExtension(s3_key) ==
    \E ext \in text_extensions : EndsWith(Lower(KeyChars[s3_key]), ext)

\* scanner.py:56-67: the sample has no NUL byte and decodes as UTF-8.
SampleIsText(sample) ==
    /\ \A k \in 1..Len(sample) : sample[k] # 0
    /\ Utf8Valid(sample)

\* StreamingBody.iter_chunks: the body in pieces of chunk_size bytes, the last
\* one shorter; no piece for an empty body.
NumChunks(body) == (Len(body) + CHUNK_SIZE - 1) \div CHUNK_SIZE

Chunk(body, n) == SubSeq(body, (n - 1) * CHUNK_SIZE + 1, Min(n * CHUNK_SIZE, Len(body)))

NewReader == [line_number |-> 0, buffer |-> <<>>, findings |-> <<>>]

\* The reader's state after the first n chunks of body.
RECURSIVE ReaderAfter(_, _)
ReaderAfter(body, n) ==
    IF n = 0 THEN NewReader ELSE ProcessChunk(ReaderAfter(body, n - 1), Chunk(body, n))

\* The requests scan_file_streaming makes to the object store, and where one
\* can fail: NoFault, or a fault [at, kind, chunk] at the head_object ("head"),
\* at the ranged read of the sample ("sample"), at get_object ("get") or at
\* the read of chunk number chunk ("chunk"). kind is "ClientError" (an error
\* response of the service) or "error" (any other exception, such as a
\* connection or read timeout); the read of a chunk raises no ClientError.
NoFault == [at |-> "none", kind |-> "none", chunk |-> 0]

Outcome(found, error_message) == [findings |-> found, error_message |-> error_message]

\* scanner.py:118-167: the streaming loop on body, whose read of chunk number
\* broken_at fails (0: no read fails). The except clause keeps the findings
\* made so far; without a failure the remaining buffer is scanned.
StreamLines(body, broken_at) ==
    IF broken_at > 0
    THEN Outcome(ReaderAfter(body, broken_at - 1).findings, "Unexpected error")
    ELSE Outcome(ProcessRemaining(ReaderAfter(body, NumChunks(body))).findings, NULL)

\* A size test that rejects a file of exactly the maximum size.
TooLarge_at_max(file_size) == file_size >= MAX_FILE_SIZE

\* scanner.py:110
TooLarge(file_size) == file_size > MAX_FILE_SIZE

\* scanner.py:91-169: (findings, error_message) of a scan during which the
\* fault `fault` occurs (no fault for NoFault).
\*  - get_file_size turns a ClientError (a missing key too) into None;
\*  - is_text_file turns a ClientError into False; S3 answers the ranged read
\*    of an empty object with InvalidRange, a ClientError;
\*  - every other exception ends in the except clauses of scanner.py:161-167.
scan_file_streaming(s3_key, fault) ==
    IF fault.at = "head" /\ fault.kind = "error"
    THEN Outcome(<<>>, "Unexpected error")
    ELSE IF fault.at = "head" \/ s3_key \notin DOMAIN S3Objects
    THEN Outcome(<<>>, "Could not determine file size")
    ELSE IF TooLarge(Len(S3Objects[s3_key]))
    THEN Outcome(<<>>, "File too large")
    ELSE IF ~HasTextExtension(s3_key) /\ fault.at = "sample" /\ fault.kind = "error"
    THEN Outcome(<<>>, "Unexpected error")
    ELSE IF /\ ~HasTextExtension(s3_key)
            /\ \/ fault.at = "sample"
               \/ Len(S3Objects[s3_key]) = 0
               \/ ~SampleIsText(Slice(S3Objects[s3_key], 0, SAMPLE_SIZE))
    THEN Outcome(<<>>, "Non-text file, skipped")
    ELSE IF fault.at = "get" /\ fault.kind = "ClientError"
    THEN Outcome(<<>>, "S3 error")
    ELSE IF fault.at = "get"
    THEN Outcome(<<>>, "Unexpected error")
    ELSE StreamLines(S3Objects[s3_key],
                     IF fault.at = "chunk" /\ fault.chunk <= NumChunks(S3Objects[s3_key])
                     THEN fault.chunk ELSE 0)

\* The requests the same scan sends to the object store, in order:
\* head_object (get_file_size), the ranged get_object of the sample and its
\* read (is_text_file, for a key without a text extension), get_object and
\* the read of each chunk. A request that fails is the last one.
scan_requests(s3_key, fault) ==
    IF fault.at = "head" \/ s3_key \notin DOMAIN S3Objects
    THEN <<"head_object">>
    ELSE IF TooLarge(Len(S3Objects[s3_key]))
    THEN <<"head_object">>
    ELSE IF /\ ~HasTextExtension(s3_key)
            /\ \/ fault.at = "sample"
               \/ Len(S3Objects[s3_key]) = 0
               \/ ~SampleIsText(Slice(S3Objects[s3_key], 0, SAMPLE_SIZE))
    THEN <<"head_object", "get_object_range">>
    ELSE (IF HasTextExtension(s3_key)
          THEN <<"head_object">>
          ELSE <<"head_object", "get_object_range">>)
         \o <<"get_object">>
         \o [n \in 1..(IF fault.at = "get" THEN 0
                       ELSE IF fault.at = "chunk" THEN fault.chunk
                       ELSE NumChunks(S3Objects[s3_key])) |-> "read"]

\* The faults that can occur in a scan of s3_key: one at each request the scan
\* makes.
ScanFaults(s3_key) ==
    LET body     == S3Objects[s3_key]
        exists   == s3_key \in DOMAIN S3Objects
        sized    == exists /\ ~TooLarge(Len(body))
        sampled  == sized /\ ~HasTextExtension(s3_key)
        streamed == sized /\ (HasTextExtension(s3_key)
                                \/ (Len(body) > 0 /\ SampleIsText(Slice(body, 0, SAMPLE_SIZE))))
    IN  {[at |-> "head", kind |-> k, chunk |-> 0] : k \in {"ClientError", "error"}}
        \cup (IF sampled
              THEN {[at |-> "sample", kind |-> k, chunk |-> 0] : k \in {"ClientError", "error"}}
              ELSE {})
        \cup (IF streamed
              THEN {[at |-> "get", kind |-> k, chunk |-> 0] : k \in {"ClientError", "error"}}
                   \cup {[at |-> "chunk", kind |-> "error", chunk |-> n] :
                            n \in 1..NumChunks(body)}
              ELSE {})

\* scanner.py:171-182: scan_file delegates to scan_file_streaming. Its runs
\* are tabulated here by key: for each fault that can occur, what it returns
\* and the requests it has sent.
scan_file ==
    [s3_key \in DOMAIN S3Objects |->
        {[fault    |-> fault,
          result   |-> scan_file_streaming(s3_key, fault),
          requests |-> scan_requests(s3_key, fault)] :
            fault \in {NoFault} \cup ScanFaults(s3_key)}]

\* ------------------------------------------------------------------------
\* State
\* ------------------------------------------------------------------------
VARIABLES
    queue,        \* SQS: message id -> [state, receive_count]
    jobs,         \* table jobs: job_id -> row
    job_objects,  \* table job_objects: object_id -> row (committed)
    findings,     \* table findings: the set of committed rows
    finding_seq,  \* the next value of the sequence behind findings.finding_id
    worker,       \* worker process -> its position in run() and the locals
                  \* of process_message
    faults,       \* the number of faults (failed requests) so far
    shutdown_flag, \* worker process -> its global shutdown_flag (main.py:32)
    db_manager,   \* worker process -> its connection pool: "open" or NULL
    batch,        \* worker process -> the messages of the received batch that
                  \* the loop of poll_queue has not reached yet
    client,       \* a client of GET /results: the listing it is paging through
    detector,     \* a SensitiveDataDetector: the line it is given and what
                  \* scan_line has returned for it
    scanner       \* a FileScanner: the object it is given and its position
                  \* in scan_file_streaming

vars == <<queue, jobs, job_objects, findings, finding_seq, worker, faults,
          shutdown_flag, db_manager, batch, client, detector, scanner>>

\* No client is paging through the findings.
NoListing == [phase |-> "none"]

\* The detector has been given no line.
NoLine == [family |-> "none", text |-> <<>>, line_number |-> 0, scanned |-> FALSE,
           findings |-> <<>>, last |-> <<>>]

\* The scanner has been given no object.
NoScan == [pc |-> "none", s3_key |-> "", body |-> <<>>, chunk_size |-> 0,
           max_file_size |-> 0, requests |-> <<>>, text_file |-> "unknown",
           chunks |-> 0, reader |-> NewReader, lines |-> <<>>,
           error_message |-> NULL]

\* A worker at the test of the loop of run() (main.py:226), between two
\* polls. fault records which request of the scan, if any, failed and requests
\* the requests the scan has sent to the object store; pending holds the rows
\* the open session has inserted and not yet committed.
Idle ==
    [pc            |-> "idle",
     msg           |-> 0,
     receipt       |-> 0,
     data          |-> NULL,
     session       |-> "closed",
     object_id     |-> 0,
     obj           |-> NoRow,
     fault         |-> NoFault,
     findings      |-> <<>>,
     error_message |-> NULL,
     requests      |-> <<>>,
     pending       |-> {}]

\* One message has been enqueued; every job object is pending.
Init ==
    /\ \E sent \in MessageIds :
          queue = [m \in MessageIds |->
                     [state |-> IF m = sent THEN "visible" ELSE "none",
                      receive_count |-> 0]]
    /\ jobs = [j \in {"j1"} |->
                 [status |-> "running", total_objects |-> Cardinality(ObjectIds),
                  completed_objects |-> 0, failed_objects |-> 0, total_findings |-> 0]]
    /\ job_objects = [o \in ObjectIds |->
                        [object_id     |-> o,
                         job_id        |-> "j1",
                         s3_key        |-> ObjectKeys[o],
                         status        |-> "pending",
                         findings_count |-> 0,
                         error_message |-> NULL,
                         attempts      |-> 0,
                         scanned_at    |-> NULL]]
    /\ findings = {}
    /\ finding_seq = 1
    /\ worker = [w \in Workers |-> Idle]
    /\ faults = 0
    /\ shutdown_flag = [w \in Workers |-> FALSE]
    /\ db_manager = [w \in Workers |-> "open"]
    /\ batch = [w \in Workers |-> <<>>]
    /\ client = NoListing
    /\ detector = NoLine
    /\ scanner = NoScan

\* ------------------------------------------------------------------------
\* Database operations (database.py)
\* ------------------------------------------------------------------------
\* An update_object_status that does not store the error message.
update_object_status_drops_message(obj, status, error_message) ==
    [status     |-> status,
     scanned_at |-> IF status \in {"completed", "failed"} THEN "now" ELSE NULL,
     attempts   |-> obj.attempts + 1]

\* database.py:103-131 on the loaded object obj: the attributes it assigns.
\* attempts is computed from the value that was loaded.
update_object_status(obj, status, error_message) ==
    LET assigned == [status     |-> status,
                     scanned_at |-> IF status \in {"completed", "failed"} THEN "now" ELSE NULL,
                     attempts   |-> obj.attempts + 1]
    IN  IF error_message # NULL
        THEN assigned @@ [error_message |-> error_message]
        ELSE assigned

\* A worker that leaves the status as it is before the scan.
mark_object_scanning_skipped(obj) == [attempts |-> obj.attempts]

mark_object_scanning(obj) == update_object_status(obj, "scanning", NULL)

mark_object_completed(obj) == update_object_status(obj, "completed", NULL)

\* A worker that records recognised non-text content with the status skipped.
mark_object_skipped(obj, error_message) == update_object_status(obj, "skipped", error_message)

mark_object_failed(obj, error_message) == update_object_status(obj, "failed", error_message)

\* A worker that keeps the counters of the job as it finishes objects.
FlushJobs_counts(table, job_id, assigned) ==
    [table EXCEPT ![job_id] =
        IF assigned.status = "completed"
        THEN [@ EXCEPT !.completed_objects = @ + 1]
        ELSE IF assigned.status = "failed"
        THEN [@ EXCEPT !.failed_objects = @ + 1]
        ELSE @]

\* database.py:115-124: table jobs after the flush of update_object_status.
\* The session has loaded the JobObject alone and the attributes assigned are
\* its own, so the flush sends an UPDATE of job_objects and no statement on
\* jobs.
FlushJobs(table, job_id, assigned) == table

\* The UPDATE of the flush: every attribute the code assigns is written to
\* the row (the ORM's omission of attributes whose value did not change is not
\* modelled).
WriteRow(row, assigned) ==
    [c \in DOMAIN row |-> IF c \in DOMAIN assigned THEN assigned[c] ELSE row[c]]

\* The columns of the unique constraint unique_finding and of the conflict
\* target of bulk_insert_findings.
FindingKey(r) ==
    <<r.object_id, r.finding_type, r.line_number, r.column_start, r.value_hash>>

\* main.py:141-154: the row values built from a detector finding (the raw
\* value is left out).
FindingData(object_id, job_id, f) ==
    [object_id    |-> object_id,
     job_id       |-> job_id,
     finding_type |-> f.finding_type,
     value_hash   |-> f.value_hash,
     line_number  |-> f.line_number,
     column_start |-> f.column_start,
     column_end   |-> f.column_end,
     context      |-> f.context,
     confidence   |-> f.confidence]

\* An INSERT that never sees a conflict: every proposed row is added.
InsertRows_no_conflict(table, findings_data, k, seq) ==
    {findings_data[j] @@ [finding_id |-> seq + j - k] : j \in k..Len(findings_data)}

\* INSERT ... ON CONFLICT (unique_finding columns) DO NOTHING of the rows
\* findings_data[k..] into table: each proposed row takes the next finding_id
\* from the sequence, and is dropped when a row with its key is there already
\* (in the table or earlier in the statement). Gives the rows added.
RECURSIVE InsertRows(_, _, _, _)
InsertRows(table, findings_data, k, seq) ==
    IF k > Len(findings_data) THEN {}
    ELSE LET row      == findings_data[k] @@ [finding_id |-> seq]
             conflict == \E r \in table : FindingKey(r) = FindingKey(row)
         IN  IF conflict
             THEN InsertRows(table, findings_data, k + 1, seq + 1)
             ELSE {row} \cup InsertRows(table \cup {row}, findings_data, k + 1, seq + 1)

\* A plain INSERT into a table without the constraint unique_finding.
bulk_insert_plain(table, seq, findings_data) ==
    [rows |-> {findings_data[k] @@ [finding_id |-> seq + k - 1] :
                  k \in 1..Len(findings_data)},
     seq  |-> seq + Len(findings_data)]

\* database.py:133-157: the rows the statement adds to table and the sequence
\* value after it. An empty list issues no statement.
bulk_insert_findings(table, seq, findings_data) ==
    IF findings_data = <<>>
    THEN [rows |-> {}, seq |-> seq]
    ELSE [rows |-> InsertRows(table, findings_data, 1, seq),
          seq  |-> seq + Len(findings_data)]

\* A commit that replaces the rows of the table by those of the session.
commit_replaces(table, pending) == pending

\* database.py:95: session.commit() makes the session's writes durable.
commit(table, pending) == table \cup pending

\* A get_session that commits where it should roll back.
rollback_keeps_writes(table, pending) == table \cup pending

\* database.py:97: session.rollback() discards them.
rollback(table, pending) == table

\* A lookup by the job id alone.
get_object_by_job(table, job_id, s3_key) ==
    LET found == {o \in DOMAIN table : table[o].job_id = job_id}
    IN  IF found = {} THEN NoRow ELSE table[CHOOSE o \in found : TRUE]

\* database.py:159-179: the row of (job_id, s3_key), NoRow when there is none.
get_object_by_job_and_key(table, job_id, s3_key) ==
    LET found == {o \in DOMAIN table : table[o].job_id = job_id /\ table[o].s3_key = s3_key}
    IN  IF found = {} THEN NoRow ELSE table[CHOOSE o \in found : TRUE]

\* ------------------------------------------------------------------------
\* The worker (main.py)
\* ------------------------------------------------------------------------
required_fields == {"job_id", "s3_bucket", "s3_key"}

\* main.py:62-85. json.loads fails on an invalid body (None is returned); the
\* test `field in data` is a key test on an object, an element test on an
\* array, a substring test on a string, and raises TypeError on a number, a
\* boolean and null.
parse_message(body) ==
    CASE body.json = "invalid" -> [result |-> "none", data |-> NULL]
      [] body.json = "object" ->
            IF required_fields \subseteq DOMAIN body.fields
            THEN [result |-> "data", data |-> body]
            ELSE [result |-> "none", data |-> NULL]
      [] body.json \in {"array", "string"} ->
            IF required_fields \subseteq body.holds
            THEN [result |-> "data", data |-> body]
            ELSE [result |-> "none", data |-> NULL]
      [] OTHER -> [result |-> "raise", data |-> NULL]

\* A process_message without the except clause of main.py:167: the exception
\* ends the polling loop.
HandleException_escapes(wr) == [wr EXCEPT !.pc = "crashed", !.session = "closed"]

\* main.py:167-169: the exception is logged, the message is not deleted, and
\* process_message returns to the polling loop.
HandleException(wr) == Idle

\* process_message returns normally.
Return(wr) == Idle

\* A process_message that deletes the message as soon as scan_file has
\* returned, without the results session.
ScanReturns_deletes_first(wr, result) ==
    [wr EXCEPT !.findings      = result.findings,
               !.error_message = result.error_message,
               !.pc            = "delete"]

\* A process_message that tests the findings before the error message.
ScanReturns_findings_first(wr, result) ==
    [wr EXCEPT !.findings      = result.findings,
               !.error_message = result.error_message,
               !.session       = "open",
               !.pc            = IF result.findings # <<>> THEN "insert" ELSE "load"]

\* main.py:129-140, 156: scan_file has returned result = (findings, error_message); the
\* results session opens and the branch is taken on error_message, then on
\* the findings.
ScanReturns(wr, result) ==
    [wr EXCEPT !.findings      = result.findings,
               !.error_message = result.error_message,
               !.session       = "open",
               !.pc            = IF result.error_message # NULL THEN "load"
                                 ELSE IF result.findings # <<>> THEN "insert"
                                 ELSE "load"]

\* main.py:35-39: SIGTERM or SIGINT sets the flag; nothing else happens in
\* the handler.
signal_handler(flag) == TRUE

\* A run() whose loop does not test the flag.
KeepRunning_ignores_flag(flag) == TRUE

\* main.py:226: the test of `while not shutdown_flag`.
KeepRunning(flag) == ~flag

\* A run() that leaves the pool as it is.
close_db_leaks(pool) == pool

\* database.py:211-216: close_db disposes of the engine and forgets the
\* manager.
close_db(pool) == NULL

\* A poll_queue without its except clauses: the exception ends run().
PollException_escapes(wr) == [wr EXCEPT !.pc = "crashed"]

\* main.py:213-219: both except clauses of poll_queue log the exception and
\* sleep five seconds; poll_queue returns to the loop of run().
PollException(wr) == Idle

\* A poll_queue that passes every received message to process_message.
Dispatch_ignores_flag(flag, m, receipt) ==
    [Idle EXCEPT !.pc = "parse", !.msg = m, !.receipt = receipt]

\* main.py:205-211: the loop over the received messages. The flag is tested
\* before each message; when it is set the loop is left (break) and the
\* message is not passed to process_message.
Dispatch(flag, m, receipt) ==
    IF flag THEN Idle
    ELSE [Idle EXCEPT !.pc = "parse", !.msg = m, !.receipt = receipt]

\* A worker whose polls come from a second thread: it polls whatever the
\* loop of run() is doing.
AtLoopTest_concurrent(wr, remaining) == TRUE

\* main.py:226-227: run() is the only caller of poll_queue, and it calls it
\* from its loop. The worker is at the test of that loop when process_message
\* has returned and the loop over the received messages is over.
AtLoopTest(wr, remaining) == wr.pc = "idle" /\ remaining = <<>>

\* A signal is delivered to the process of worker w (anywhere but inside a
\* poll that returns a message, which is SignalDuringPoll).
Signal(w) ==
    /\ worker[w].pc # "stopped"
    /\ ~shutdown_flag[w]
    /\ shutdown_flag' = [shutdown_flag EXCEPT ![w] = signal_handler(@)]
    /\ UNCHANGED <<queue, jobs, job_objects, findings, finding_seq, worker, faults,
                   db_manager,
                   batch, client, detector, scanner>>

\* main.py:226-227, 196-211: the flag is not set, poll_queue calls
\* sqs.receive_message, which returns message m (MAX_MESSAGES is 1 by
\* default): the message becomes invisible and its receive count, which is
\* its receipt handle, goes up; the loop over the received messages follows.
\* Idle workers whose flag is not set do not differ, so the first of them is
\* the one that polls. A poll that returns no message changes nothing.
ReceiveMessage(w, m) ==
    /\ AtLoopTest(worker[w], batch[w])
    /\ KeepRunning(shutdown_flag[w])
    /\ w = CHOOSE v \in Workers :
              AtLoopTest(worker[v], batch[v]) /\ KeepRunning(shutdown_flag[v])
    /\ queue[m].state = "visible"
    /\ queue[m].receive_count < MaxReceive
    /\ queue' = [queue EXCEPT ![m] = [state |-> "inflight",
                                      receive_count |-> @.receive_count + 1]]
    /\ worker' = [worker EXCEPT ![w] =
          Dispatch(shutdown_flag[w], m, queue[m].receive_count + 1)]
    /\ UNCHANGED <<jobs, job_objects, findings, finding_seq, faults,
                   shutdown_flag, db_manager,
                   batch, client, detector, scanner>>

\* The same poll, during which (sqs.receive_message waits up to
\* POLL_WAIT_TIME seconds) a signal is delivered to the process: the flag is
\* set when the loop over the received messages begins.
SignalDuringPoll(w, m) ==
    /\ AtLoopTest(worker[w], batch[w])
    /\ KeepRunning(shutdown_flag[w])
    /\ queue[m].state = "visible"
    /\ queue[m].receive_count < MaxReceive
    /\ queue' = [queue EXCEPT ![m] = [state |-> "inflight",
                                      receive_count |-> @.receive_count + 1]]
    /\ shutdown_flag' = [shutdown_flag EXCEPT ![w] = signal_handler(@)]
    /\ worker' = [worker EXCEPT ![w] =
          Dispatch(shutdown_flag'[w], m, queue[m].receive_count + 1)]
    /\ UNCHANGED <<jobs, job_objects, findings, finding_seq, faults, db_manager,
                   batch, client, detector, scanner>>

\* main.py:190-211 with MaxNumberOfMessages above one: the poll returns the
\* two visible messages m1 and m2, in this order. The loop over them starts
\* with m1; m2 waits in the batch.
ReceiveMessages(w, m1, m2) ==
    /\ MAX_MESSAGES >= 2
    /\ AtLoopTest(worker[w], batch[w])
    /\ KeepRunning(shutdown_flag[w])
    /\ m1 # m2
    /\ \A m \in {m1, m2} : queue[m].state = "visible" /\ queue[m].receive_count < MaxReceive
    /\ queue' = [m \in MessageIds |->
                   IF m \in {m1, m2}
                   THEN [state |-> "inflight", receive_count |-> queue[m].receive_count + 1]
                   ELSE queue[m]]
    /\ worker' = [worker EXCEPT ![w] =
          Dispatch(shutdown_flag[w], m1, queue[m1].receive_count + 1)]
    /\ batch' = [batch EXCEPT ![w] =
          <<[msg |-> m2, receipt |-> queue[m2].receive_count + 1]>>]
    /\ UNCHANGED <<jobs, job_objects, findings, finding_seq, faults,
                   shutdown_flag, db_manager,
                   client, detector, scanner>>

\* main.py:204-209: process_message has returned and the loop over the
\* received messages goes on to the next one, testing the flag first; on a
\* set flag the loop is left and what remains of the batch is dropped.
NextMessage(w) ==
    /\ worker[w].pc = "idle"
    /\ batch[w] # <<>>
    /\ worker' = [worker EXCEPT ![w] =
          Dispatch(shutdown_flag[w], Head(batch[w]).msg, Head(batch[w]).receipt)]
    /\ batch' = [batch EXCEPT ![w] = IF shutdown_flag[w] THEN <<>> ELSE Tail(@)]
    /\ UNCHANGED <<queue, jobs, job_objects, findings, finding_seq, faults,
                   shutdown_flag, db_manager,
                   client, detector, scanner>>

\* sqs.receive_message raises (a ClientError or any other exception): the
\* request has failed and the queue is as it was.
PollFault(w) ==
    /\ AtLoopTest(worker[w], batch[w])
    /\ KeepRunning(shutdown_flag[w])
    /\ faults < MaxFaults
    /\ faults' = faults + 1
    /\ worker' = [worker EXCEPT ![w] = PollException(worker[w])]
    /\ UNCHANGED <<queue, jobs, job_objects, findings, finding_seq,
                   shutdown_flag, db_manager,
                   batch, client, detector, scanner>>

\* main.py:226-235: the flag is set at the test of the loop; run() leaves the
\* loop and its finally clause calls close_db.
Stop(w) ==
    /\ AtLoopTest(worker[w], batch[w])
    /\ ~KeepRunning(shutdown_flag[w])
    /\ worker' = [worker EXCEPT ![w].pc = "stopped"]
    /\ db_manager' = [db_manager EXCEPT ![w] = close_db(@)]
    /\ UNCHANGED <<queue, jobs, job_objects, findings, finding_seq, faults,
                   shutdown_flag,
                   batch, client, detector, scanner>>

\* The visibility timeout of an undeleted message runs out, whether or not a
\* worker is still processing it (a message received MaxReceive times is not
\* delivered again).
VisibilityTimeout(m) ==
    /\ queue[m].state = "inflight"
    /\ queue[m].receive_count < MaxReceive
    /\ queue' = [queue EXCEPT ![m].state = "visible"]
    /\ UNCHANGED <<jobs, job_objects, findings, finding_seq, worker, faults, shutdown_flag, db_manager,
                   batch, client, detector, scanner>>

\* main.py:97-111
ParseMessage(w) ==
    LET wr     == worker[w]
        parsed == parse_message(MessageBody[wr.msg])
    IN  /\ wr.pc = "parse"
        /\ worker' = [worker EXCEPT ![w] =
              IF parsed.result = "raise" THEN HandleException(wr)
              ELSE IF parsed.result = "none" THEN [wr EXCEPT !.pc = "delete"]
              ELSE IF parsed.data.json # "object" THEN HandleException(wr)
              ELSE [wr EXCEPT !.pc = "lookup",
                              !.data = parsed.data.fields,
                              !.session = "open"]]
        /\ UNCHANGED <<queue, jobs, job_objects, findings, finding_seq, faults, shutdown_flag, db_manager,
                   batch, client, detector, scanner>>

\* main.py:114-123: the SELECT of get_object_by_job_and_key. A SQLAlchemyError
\* in it is caught there and None is returned (database.py:177-179).
LookupObject(w) ==
    LET wr == worker[w]
    IN  /\ wr.pc = "lookup"
        /\ \E outcome \in {"ok", "SQLAlchemyError"} :
              LET obj == IF outcome = "ok"
                         THEN get_object_by_job_and_key(job_objects, wr.data.job_id,
                                                        wr.data.s3_key)
                         ELSE NoRow
              IN  /\ outcome # "ok" => faults < MaxFaults
                  /\ faults' = IF outcome # "ok" THEN faults + 1 ELSE faults
                  /\ worker' = [worker EXCEPT ![w] =
                        IF obj = NoRow
                        THEN [wr EXCEPT !.pc = "delete"]
                        ELSE [wr EXCEPT !.pc = "mark_scanning",
                                        !.object_id = obj.object_id,
                                        !.obj = obj]]
        /\ UNCHANGED <<queue, jobs, job_objects, findings, finding_seq, shutdown_flag, db_manager,
                   batch, client, detector, scanner>>

\* main.py:126 and the commit on leaving the with block (database.py:95).
MarkScanning(w) ==
    LET wr == worker[w]
    IN  /\ wr.pc = "mark_scanning"
        /\ job_objects' = [job_objects EXCEPT ![wr.object_id] =
                              WriteRow(@, mark_object_scanning(wr.obj))]
        /\ jobs' = FlushJobs(jobs, wr.data.job_id, mark_object_scanning(wr.obj))
        /\ worker' = [worker EXCEPT ![w] = [wr EXCEPT !.pc = "scan",
                                                      !.session = "closed",
                                                      !.obj = NoRow]]
        /\ UNCHANGED <<queue, findings, finding_seq, faults, shutdown_flag, db_manager,
                   batch, client, detector, scanner>>

\* A statement or the commit of the open session raises (a persistence
\* fault): get_session rolls back, closes the session and re-raises
\* (database.py:96-101), and process_message catches it.
SessionFault(w) ==
    LET wr == worker[w]
    IN  /\ wr.session = "open"
        /\ wr.pc \in {"mark_scanning", "insert", "load", "commit"}
        /\ faults < MaxFaults
        /\ faults' = faults + 1
        /\ findings' = rollback(findings, wr.pending)
        /\ worker' = [worker EXCEPT ![w] = HandleException(wr)]
        /\ UNCHANGED <<queue, jobs, job_objects, finding_seq, shutdown_flag, db_manager,
                   batch, client, detector, scanner>>

\* main.py:129: scan_file, a local computation on the object store, during
\* which at most one request fails.
ScanFile(w) ==
    LET wr == worker[w]
    IN  /\ wr.pc = "scan"
        /\ \E run \in scan_file[wr.data.s3_key] :
              /\ run.fault # NoFault => faults < MaxFaults
              /\ faults' = IF run.fault # NoFault THEN faults + 1 ELSE faults
              /\ worker' = [worker EXCEPT ![w] =
                    ScanReturns([wr EXCEPT !.fault = run.fault,
                                           !.requests = run.requests],
                                run.result)]
        /\ UNCHANGED <<queue, jobs, job_objects, findings, finding_seq, shutdown_flag, db_manager,
                   batch, client, detector, scanner>>

\* main.py:140-157: the INSERT of bulk_insert_findings. It waits while another
\* transaction holds uncommitted rows with one of its keys; its rows stay
\* pending until the commit, the sequence values it took are gone at once.
InsertFindings(w) ==
    LET wr            == worker[w]
        findings_data == [k \in 1..Len(wr.findings) |->
                             FindingData(wr.object_id, wr.data.job_id, wr.findings[k])]
        keys          == {FindingKey(findings_data[k]) : k \in 1..Len(findings_data)}
        inserted      == bulk_insert_findings(findings, finding_seq, findings_data)
    IN  /\ wr.pc = "insert"
        /\ \A v \in Workers \ {w} : \A r \in worker[v].pending : FindingKey(r) \notin keys
        /\ finding_seq' = inserted.seq
        /\ worker' = [worker EXCEPT ![w] = [wr EXCEPT !.pc = "load",
                                                      !.pending = inserted.rows]]
        /\ UNCHANGED <<queue, jobs, job_objects, findings, faults, shutdown_flag, db_manager,
                   batch, client, detector, scanner>>

\* database.py:115: the SELECT of update_object_status in the results session.
LoadObject(w) ==
    LET wr == worker[w]
    IN  /\ wr.pc = "load"
        /\ worker' = [worker EXCEPT ![w] = [wr EXCEPT !.pc = "commit",
                                                      !.obj = job_objects[wr.object_id]]]
        /\ UNCHANGED <<queue, jobs, job_objects, findings, finding_seq, faults, shutdown_flag, db_manager,
                   batch, client, detector, scanner>>

\* main.py:133-161: mark_object_failed or mark_object_completed, and the
\* commit of the results session with the pending finding rows.
CommitResults(w) ==
    LET wr == worker[w]
        assigned == IF wr.error_message # NULL
                    THEN mark_object_failed(wr.obj, wr.error_message)
                    ELSE mark_object_completed(wr.obj)
    IN  /\ wr.pc = "commit"
        /\ job_objects' = [job_objects EXCEPT ![wr.object_id] = WriteRow(@, assigned)]
        /\ jobs' = FlushJobs(jobs, wr.data.job_id, assigned)
        /\ findings' = commit(findings, wr.pending)
        /\ worker' = [worker EXCEPT ![w] = [wr EXCEPT !.pc = "delete",
                                                      !.session = "closed",
                                                      !.obj = NoRow,
                                                      !.pending = {}]]
        /\ UNCHANGED <<queue, finding_seq, faults, shutdown_flag, db_manager,
                   batch, client, detector, scanner>>

\* sqs.delete_message with a receipt handle: the message is deleted when the
\* handle is the one of its latest receive; with an older handle it may or
\* may not be.
DeleteOutcomes(q, m, receipt) ==
    IF q[m].state = "deleted" THEN {q}
    ELSE IF receipt = q[m].receive_count THEN {[q EXCEPT ![m].state = "deleted"]}
    ELSE {q, [q EXCEPT ![m].state = "deleted"]}

\* main.py:103, 120, 164 and 171-186: delete_message. A ClientError is logged
\* and swallowed; any other exception reaches the except clause of
\* process_message. After the delete process_message returns (closing the
\* lookup session when the delete was made inside it).
DeleteMessage(w) ==
    LET wr == worker[w]
    IN  /\ wr.pc = "delete"
        /\ \E outcome \in {"ok", "ClientError", "error"} :
              /\ outcome # "ok" => faults < MaxFaults
              /\ faults' = IF outcome # "ok" THEN faults + 1 ELSE faults
              /\ IF outcome = "ok"
                 THEN queue' \in DeleteOutcomes(queue, wr.msg, wr.receipt)
                 ELSE queue' = queue
              /\ worker' = [worker EXCEPT ![w] =
                    IF outcome = "error" THEN HandleException(wr) ELSE Return(wr)]
        /\ UNCHANGED <<jobs, job_objects, findings, finding_seq, shutdown_flag, db_manager,
                   batch, client, detector, scanner>>

\* The steps of workers that are not sent a signal.
Next ==
    \/ \E w \in Workers, m \in MessageIds : ReceiveMessage(w, m)
    \/ \E w \in Workers : PollFault(w)
    \/ \E m \in MessageIds : VisibilityTimeout(m)
    \/ \E w \in Workers : ParseMessage(w)
    \/ \E w \in Workers : LookupObject(w)
    \/ \E w \in Workers : MarkScanning(w)
    \/ \E w \in Workers : SessionFault(w)
    \/ \E w \in Workers : ScanFile(w)
    \/ \E w \in Workers : InsertFindings(w)
    \/ \E w \in Workers : LoadObject(w)
    \/ \E w \in Workers : CommitResults(w)
    \/ \E w \in Workers : DeleteMessage(w)

Spec == Init /\ [][Next]_vars

\* The workers with the signals that shut them down. A signal sets the flag,
\* which only the loops of run() and poll_queue read: the steps of
\* process_message are those of Next.
RunNext ==
    \/ Next
    \/ \E w \in Workers : Signal(w)
    \/ \E w \in Workers, m \in MessageIds : SignalDuringPoll(w, m)
    \/ \E w \in Workers : Stop(w)

RunSpec == Init /\ [][RunNext]_vars

\* Two messages have been enqueued, for workers that ask for up to
\* MAX_MESSAGES messages in a poll: the work item of a text object with
\* findings and a body that is not JSON.
BatchInit ==
    /\ \E sent \in {{1, 8}} :
          /\ queue = [m \in MessageIds |->
                        [state |-> IF m \in sent THEN "visible" ELSE "none",
                         receive_count |-> 0]]
    /\ jobs = [j \in {"j1"} |->
                 [status |-> "running", total_objects |-> Cardinality(ObjectIds),
                  completed_objects |-> 0, failed_objects |-> 0, total_findings |-> 0]]
    /\ job_objects = [o \in ObjectIds |->
                        [object_id     |-> o,
                         job_id        |-> "j1",
                         s3_key        |-> ObjectKeys[o],
                         status        |-> "pending",
                         findings_count |-> 0,
                         error_message |-> NULL,
                         attempts      |-> 0,
                         scanned_at    |-> NULL]]
    /\ findings = {}
    /\ finding_seq = 1
    /\ worker = [w \in Workers |-> Idle]
    /\ faults = 0
    /\ shutdown_flag = [w \in Workers |-> FALSE]
    /\ db_manager = [w \in Workers |-> "open"]
    /\ batch = [w \in Workers |-> <<>>]
    /\ client = NoListing
    /\ detector = NoLine
    /\ scanner = NoScan

\* The steps of workers that receive their messages in batches.
BatchNext ==
    \/ Next
    \/ \E w \in Workers, m1, m2 \in MessageIds : ReceiveMessages(w, m1, m2)
    \/ \E w \in Workers : NextMessage(w)

BatchSpec == BatchInit /\ [][BatchNext]_vars

\* ------------------------------------------------------------------------
\* The findings listing of the API (api-handler)
\* ------------------------------------------------------------------------
\* config.py:25 of the API handler: the largest page.
MAX_PAGE_SIZE == 2

\* The most values taken from the sequence behind finding_id while a client
\* pages through the listing.
MaxFindings == 4

\* An Optional[int] or an absent query parameter is a sequence: empty for
\* None, the value alone otherwise.
None == <<>>

\* results.py:18-29: the cursor is the base64 text of the JSON object that
\* holds the finding id.
encode_cursor(finding_id) == [base64 |-> [json |-> "object", finding_id |-> finding_id]]

\* results.py:32-47: the finding id of the JSON object the base64 text holds,
\* None when the text is not such an encoding.
decode_cursor(cursor) ==
    IF DOMAIN cursor = {"base64"} /\ "finding_id" \in DOMAIN cursor.base64
    THEN <<cursor.base64.finding_id>>
    ELSE None

\* The rows of a set in descending order of finding_id (ORDER BY
\* finding_id DESC).
Descending(rows) ==
    [i \in 1..Cardinality(rows) |->
        CHOOSE r \in rows : Cardinality({q \in rows : q.finding_id > r.finding_id}) = i - 1]

\* database.py:205-282 of the API handler. table and objects are the rows of
\* findings and job_objects the query sees; raises tells whether the query
\* raises an SQLAlchemyError. An absent filter is NULL; a cursor of 0 is, like
\* None, no cursor (`if cursor:`). next_cursor is an Optional[int].
get_findings(table, objects, job_id, finding_type, limit, cursor, raises) ==
    LET matching    == {r \in table :
                           /\ r.object_id \in DOMAIN objects
                           /\ job_id # NULL => r.job_id = job_id
                           /\ finding_type # NULL => r.finding_type = finding_type
                           /\ (cursor # None /\ cursor[1] # 0) =>
                                  r.finding_id < cursor[1]}
        results     == SubSeq(Descending(matching), 1, Min(limit + 1, Cardinality(matching)))
        has_more    == Len(results) > limit
        page        == IF has_more THEN SubSeq(results, 1, limit) ELSE results
        found       == [k \in 1..Len(page) |->
                           [finding_id   |-> page[k].finding_id,
                            job_id       |-> page[k].job_id,
                            s3_key       |-> objects[page[k].object_id].s3_key,
                            finding_type |-> page[k].finding_type]]
        next_cursor == IF found # <<>> /\ has_more
                       THEN <<found[Len(found)].finding_id>> ELSE None
    IN  IF raises
        THEN [findings |-> <<>>, next_cursor |-> None, has_more |-> FALSE]
        ELSE [findings |-> found, next_cursor |-> next_cursor, has_more |-> has_more]

\* int(limit_str) (results.py:95): the whitespace around the text is dropped
\* and a sign may precede the decimal digits; None stands for ValueError.
\* (Underscores between digits, which int() also accepts, are left out.)
ParseInt(text) ==
    LET t      == Strip(text)
        signed == t # <<>> /\ t[1] \in {43, 45}
        digits == IF signed THEN Tail(t) ELSE t
        Value[k \in 0..Len(digits)] ==
            IF k = 0 THEN 0 ELSE 10 * Value[k - 1] + (digits[k] - 48)
    IN  IF digits # <<>> /\ \A k \in 1..Len(digits) : digits[k] \in DIGIT
        THEN <<IF signed /\ t[1] = 45 THEN 0 - Value[Len(digits)] ELSE Value[Len(digits)]>>
        ELSE None

\* results.py:62-144: the response to GET /results with the query parameters
\* params (job_id and finding_type, NULL when absent; limit, the text of the
\* parameter; cursor, None when absent). The limit is parsed and brought down
\* to MAX_PAGE_SIZE, the cursor is decoded, and the body has a next_cursor
\* only when there are more results. queries is the number of calls of
\* db.get_findings the handler has made.
lambda_handler(table, objects, params, raises) ==
    LET parsed == ParseInt(params.limit)
        limit  == IF parsed # None /\ parsed[1] > 0
                  THEN Min(parsed[1], MAX_PAGE_SIZE) ELSE MAX_PAGE_SIZE
        cursor == IF params.cursor # None THEN decode_cursor(params.cursor[1]) ELSE None
        got    == get_findings(table, objects, params.job_id, params.finding_type,
                               limit, cursor, raises)
    IN  IF parsed = None \/ parsed[1] <= 0
        THEN [statusCode |-> 400, queries |-> 0]
        ELSE IF params.cursor # None /\ cursor = None
        THEN [statusCode |-> 400, queries |-> 0]
        ELSE [statusCode  |-> 200,
              queries     |-> 1,
              findings    |-> got.findings,
              count       |-> Len(got.findings),
              has_more    |-> got.has_more,
              next_cursor |-> IF /\ got.has_more
                                 /\ got.next_cursor # None
                                 /\ got.next_cursor[1] # 0
                              THEN <<encode_cursor(got.next_cursor[1])>> ELSE None]

\* A worker's results session inserts the row of a finding of type
\* finding_type (database.py:146-152 of the worker): the row takes the next
\* value of the sequence and stays invisible to the other sessions until the
\* commit.
ListingInsert(w, finding_type) ==
    LET wr       == worker[w]
        row      == [finding_type |-> finding_type, value_hash |-> hash_value(<<>>),
                     line_number |-> finding_seq, column_start |-> 0, column_end |-> 1,
                     context |-> <<>>, confidence |-> "high"]
        inserted == bulk_insert_findings(findings, finding_seq, <<FindingData(1, "j1", row)>>)
    IN  /\ wr.pc = "idle"
        /\ finding_seq <= MaxFindings
        /\ finding_seq' = inserted.seq
        /\ worker' = [worker EXCEPT ![w] = [wr EXCEPT !.pc = "commit",
                                                      !.session = "open",
                                                      !.pending = inserted.rows]]
        /\ UNCHANGED <<queue, jobs, job_objects, findings, faults, shutdown_flag,
                       db_manager, batch, client, detector, scanner>>

\* The commit of that session (database.py:95 of the worker): its row is
\* visible from now on.
ListingCommit(w) ==
    LET wr == worker[w]
    IN  /\ wr.pc = "commit"
        /\ findings' = commit(findings, wr.pending)
        /\ worker' = [worker EXCEPT ![w] = Idle]
        /\ UNCHANGED <<queue, jobs, job_objects, finding_seq, faults, shutdown_flag,
                       db_manager, batch, client, detector, scanner>>

\* The client's request and what it keeps of the response: the ids of the
\* pages so far, the cursor for the next page, and whether there is one.
\* existed is the set of ids of the findings that matched when the first
\* request was answered.
Listing(params, response, before, existed) ==
    IF response.statusCode = 400
    THEN [phase |-> "rejected", params |-> params, pages |-> before,
          existed |-> existed, queries |-> response.queries]
    ELSE [phase   |-> IF response.has_more THEN "paging" ELSE "done",
          params  |-> [params EXCEPT !.cursor = response.next_cursor],
          pages   |-> before \o [k \in 1..Len(response.findings) |->
                                     response.findings[k].finding_id],
          existed |-> existed,
          queries |-> response.queries]

\* The first request of a listing: GET /results without a cursor, limit being
\* the text of its limit parameter. The query may raise (at most MaxFaults
\* requests fail).
FirstRequest(job_id, finding_type, limit) ==
    /\ client.phase = "none"
    /\ \E raises \in BOOLEAN :
          LET params == [job_id |-> job_id, finding_type |-> finding_type,
                         limit |-> limit, cursor |-> None]
              existed == {r.finding_id : r \in
                             {q \in findings :
                                 /\ job_id # NULL => q.job_id = job_id
                                 /\ finding_type # NULL => q.finding_type = finding_type}}
          IN  /\ raises => faults < MaxFaults
              /\ faults' = IF raises THEN faults + 1 ELSE faults
              /\ client' = Listing(params,
                                   lambda_handler(findings, job_objects, params, raises),
                                   <<>>, existed)
    /\ UNCHANGED <<queue, jobs, job_objects, findings, finding_seq, worker,
                   shutdown_flag, db_manager, batch, detector, scanner>>

\* The request of the next page: the same parameters with the next_cursor of
\* the last response.
NextRequest ==
    /\ client.phase = "paging"
    /\ \E raises \in BOOLEAN :
          /\ raises => faults < MaxFaults
          /\ faults' = IF raises THEN faults + 1 ELSE faults
          /\ client' = Listing(client.params,
                               lambda_handler(findings, job_objects, client.params, raises),
                               client.pages, client.existed)
    /\ UNCHANGED <<queue, jobs, job_objects, findings, finding_seq, worker,
                   shutdown_flag, db_manager, batch, detector, scanner>>

\* The limit parameters of the requests: "1", ..., up to one more than
\* MAX_PAGE_SIZE, " 1" and "+1", and texts int() does not accept or that are
\* not positive: "0", "-1", "1.5", "x" and the empty text.
Limits ==
    {<<48 + n>> : n \in 1..(MAX_PAGE_SIZE + 1)}
    \cup {<<32, 49>>, <<43, 49>>}
    \cup {<<48>>, <<45, 49>>, <<49, 46, 53>>, <<120>>, <<>>}

\* No message is enqueued; the tables are those of a new job.
ListingInit ==
    /\ queue = [m \in MessageIds |-> [state |-> "none", receive_count |-> 0]]
    /\ jobs = [j \in {"j1"} |->
                 [status |-> "running", total_objects |-> Cardinality(ObjectIds),
                  completed_objects |-> 0, failed_objects |-> 0, total_findings |-> 0]]
    /\ job_objects = [o \in ObjectIds |->
                        [object_id     |-> o,
                         job_id        |-> "j1",
                         s3_key        |-> ObjectKeys[o],
                         status        |-> "pending",
                         findings_count |-> 0,
                         error_message |-> NULL,
                         attempts      |-> 0,
                         scanned_at    |-> NULL]]
    /\ findings = {}
    /\ finding_seq = 1
    /\ worker = [w \in Workers |-> Idle]
    /\ faults = 0
    /\ shutdown_flag = [w \in Workers |-> FALSE]
    /\ db_manager = [w \in Workers |-> "open"]
    /\ batch = [w \in Workers |-> <<>>]
    /\ client = NoListing
    /\ detector = NoLine
    /\ scanner = NoScan

\* Workers that commit findings while a client pages through the listing.
ListingNext ==
    \/ \E w \in Workers, finding_type \in {"ssn", "email"} : ListingInsert(w, finding_type)
    \/ \E w \in Workers : ListingCommit(w)
    \/ \E job_id \in {NULL, "j1"}, finding_type \in {NULL, "ssn"}, limit \in Limits :
          FirstRequest(job_id, finding_type, limit)
    \/ NextRequest

ListingSpec == ListingInit /\ [][ListingNext]_vars

\* ------------------------------------------------------------------------
\* The detector on single lines (detectors.py)
\* ------------------------------------------------------------------------
\* The lines given to the detector, by family.
\*   card     a token of 13 to 19 digits, bare or in groups of four joined by
\*            hyphens or by spaces, alone on the line or after "card ": for
\*            each length numbers with a valid and with an invalid Luhn
\*            checksum
\*   ssn      nine digits in groups of 3, 2 and 4, each separator absent, a
\*            hyphen or a space, alone on the line or after "ssn "
\*   phone    ten digits (area code, exchange, number) bare, with hyphens,
\*            with dots or as "(AAA) EEE-NNNN", with or without a country code
\*            ("1", "1-", "+1", "+1-", "+1 "), after "tel "
\*   context  an e-mail address of 6 to 200 characters after 0 to 60
\*            characters of text and before 0 or 60 characters of text
\*   hash     the same values written in different ways, and different values
Lines ==
    LET Chars(ds) == [k \in 1..Len(ds) |-> 48 + ds[k]]
        Fill(n, c) == [k \in 1..n |-> c]
        \* t in groups of four joined by sep (no character or one)
        Grouped(t, sep) ==
            IF sep = <<>> THEN t
            ELSE [p \in 1..(Len(t) + (Len(t) - 1) \div 4) |->
                     IF (p - 1) % 5 = 4 THEN sep[1]
                     ELSE t[((p - 1) \div 5) * 4 + ((p - 1) % 5) + 1]]
        Phone(format, a, e, n) ==
            CASE format = "bare"   -> a \o e \o n
              [] format = "hyphen" -> a \o <<45>> \o e \o <<45>> \o n
              [] format = "dot"    -> a \o <<46>> \o e \o <<46>> \o n
              [] format = "paren"  -> <<40>> \o a \o <<41, 32>> \o e \o <<45>> \o n
        Email(n) == <<97, 64>> \o Fill(n - 5, 98) \o <<46, 99, 111>>
        CardNumbers ==
            {<<4, 2, 2, 2, 2, 2, 2, 2, 2, 2, 2, 2, 2>>,
             <<4, 2, 2, 2, 2, 2, 2, 2, 2, 2, 2, 2, 3>>,
             <<3, 0, 5, 6, 9, 3, 0, 9, 0, 2, 5, 9, 0, 4>>,
             <<3, 7, 8, 2, 8, 2, 2, 4, 6, 3, 1, 0, 0, 0, 5>>,
             <<3, 7, 8, 2, 8, 2, 2, 4, 6, 3, 1, 0, 0, 0, 6>>,
             <<4, 1, 1, 1, 1, 1, 1, 1, 1, 1, 1, 1, 1, 1, 1, 1>>,
             <<1, 2, 3, 4, 5, 6, 7, 8, 9, 0, 1, 2, 3, 4, 5, 6>>,
             <<5, 4, 2, 5, 2, 3, 3, 4, 3, 0, 1, 0, 9, 9, 0, 3>>,
             <<4, 1, 1, 1, 1, 1, 1, 1, 1, 1, 1, 1, 1, 1, 1, 1, 3>>,
             <<4, 1, 1, 1, 1, 1, 1, 1, 1, 1, 1, 1, 1, 1, 1, 1, 1, 1, 0>>,
             <<4, 1, 1, 1, 1, 1, 1, 1, 1, 1, 1, 1, 1, 1, 1, 1, 1, 1, 2>>}
    IN  [family \in {"card", "ssn", "phone", "context", "hash"} |->
            CASE family = "card" ->
                    {prefix \o Grouped(Chars(number), sep) :
                        prefix \in {<<>>, <<99, 97, 114, 100, 32>>},
                        number \in CardNumbers,
                        sep \in {<<>>, <<45>>, <<32>>}}
              [] family = "ssn" ->
                    {prefix \o Chars(area) \o s1 \o <<52, 53>> \o s2 \o <<54, 55, 56, 57>> :
                        prefix \in {<<>>, <<115, 115, 110, 32>>},
                        area \in {<<0, 0, 0>>, <<6, 6, 6>>, <<9, 0, 0>>, <<9, 8, 7>>,
                                  <<1, 2, 3>>, <<0, 0, 1>>, <<6, 6, 0>>, <<6, 6, 7>>,
                                  <<8, 9, 9>>, <<0, 6, 6>>},
                        s1 \in {<<>>, <<45>>, <<32>>},
                        s2 \in {<<>>, <<45>>, <<32>>}}
              [] family = "phone" ->
                    {<<116, 101, 108, 32>> \o country \o Phone(format, Chars(area), Chars(exchange), <<49, 50, 51, 52>>) :
                        country \in {<<>>, <<49>>, <<49, 45>>, <<43, 49>>, <<43, 49, 45>>,
                                     <<43, 49, 32>>},
                        format \in {"bare", "hyphen", "dot", "paren"},
                        area \in {<<0, 0, 0>>, <<5, 5, 5>>, <<2, 0, 2>>, <<1, 2, 3>>,
                                  <<1, 0, 0>>, <<2, 1, 2>>},
                        exchange \in {<<5, 5, 5>>, <<4, 5, 6>>}}
              [] family = "context" ->
                    {Fill(before, 120) \o (IF before > 0 THEN <<32>> ELSE <<>>) \o Email(n)
                         \o (IF after > 0 THEN <<32>> ELSE <<>>) \o Fill(after, 121) :
                        before \in {0, 9, 49, 59},
                        n \in {6, 100, 150, 151, 200},
                        after \in {0, 60}}
              [] family = "hash" ->
                    {<<49, 50, 51, 45, 52, 53, 45, 54, 55, 56, 57>>,
                     <<49, 50, 51, 32, 52, 53, 32, 54, 55, 56, 57>>,
                     <<49, 50, 51, 52, 53, 54, 55, 56, 57>>,
                     <<49, 50, 51, 45, 52, 53, 45, 54, 55, 56, 48>>,
                     <<52, 49, 49, 49, 49, 49, 49, 49, 49, 49, 49, 49, 49, 49, 49, 49>>,
                     <<52, 49, 49, 49, 45, 49, 49, 49, 49, 45, 49, 49, 49, 49, 45, 49, 49, 49, 49>>,
                     <<52, 49, 49, 49, 32, 49, 49, 49, 49, 32, 49, 49, 49, 49, 32, 49, 49, 49, 49>>,
                     <<53, 52, 50, 53, 50, 51, 51, 52, 51, 48, 49, 48, 57, 57, 48, 51>>,
                     <<50, 48, 50, 53, 53, 53, 49, 50, 51, 52>>,
                     <<40, 50, 48, 50, 41, 32, 53, 53, 53, 45, 49, 50, 51, 52>>,
                     <<43, 49, 45, 50, 48, 50, 45, 53, 53, 53, 45, 49, 50, 51, 52>>,
                     <<49, 32, 50, 48, 50, 46, 53, 53, 53, 46, 49, 50, 51, 52>>,
                     <<50, 48, 50, 53, 53, 53, 49, 50, 51, 53>>,
                     <<97, 64, 98, 46, 99, 111>>,
                     <<65, 64, 66, 46, 67, 79>>,
                     <<97, 64, 66, 46, 67, 111>>,
                     <<99, 64, 98, 46, 99, 111>>}]

\* detectors.py:272-292: scan_line on the line the detector was given.
ScanLine ==
    /\ detector.family # "none"
    /\ ~detector.scanned
    /\ detector' = [detector EXCEPT !.scanned = TRUE,
                                    !.findings = scan_line(detector.text,
                                                           detector.line_number)]
    /\ UNCHANGED <<queue, jobs, job_objects, findings, finding_seq, worker, faults,
                   shutdown_flag, db_manager, batch, client, scanner>>

\* detectors.py:294-312: the detector goes on to a second line (as scan_text
\* does, line after line); what it found on the first is kept in last.
NextLine(text) ==
    /\ detector.family = "hash"
    /\ detector.scanned
    /\ detector.last = <<>>
    /\ detector' = [family   |-> "hash",
                    text     |-> text,
                    line_number |-> detector.line_number + 1,
                    scanned  |-> FALSE,
                    findings |-> <<>>,
                    last     |-> detector.findings]
    /\ UNCHANGED <<queue, jobs, job_objects, findings, finding_seq, worker, faults,
                   shutdown_flag, db_manager, batch, client, scanner>>

\* The detector has been given one of the lines; no message is enqueued.
DetectInit ==
    /\ \E family \in DOMAIN Lines : \E text \in Lines[family] :
          detector = [family   |-> family,
                      text     |-> text,
                      line_number |-> 1,
                      scanned  |-> FALSE,
                      findings |-> <<>>,
                      last     |-> <<>>]
    /\ queue = [m \in MessageIds |-> [state |-> "none", receive_count |-> 0]]
    /\ jobs = [j \in {"j1"} |->
                 [status |-> "running", total_objects |-> Cardinality(ObjectIds),
                  completed_objects |-> 0, failed_objects |-> 0, total_findings |-> 0]]
    /\ job_objects = [o \in ObjectIds |->
                        [object_id     |-> o,
                         job_id        |-> "j1",
                         s3_key        |-> ObjectKeys[o],
                         status        |-> "pending",
                         findings_count |-> 0,
                         error_message |-> NULL,
                         attempts      |-> 0,
                         scanned_at    |-> NULL]]
    /\ findings = {}
    /\ finding_seq = 1
    /\ worker = [w \in Workers |-> Idle]
    /\ faults = 0
    /\ shutdown_flag = [w \in Workers |-> FALSE]
    /\ db_manager = [w \in Workers |-> "open"]
    /\ batch = [w \in Workers |-> <<>>]
    /\ client = NoListing
    /\ scanner = NoScan

DetectNext ==
    \/ ScanLine
    \/ \E text \in Lines["hash"] : NextLine(text)

DetectSpec == DetectInit /\ [][DetectNext]_vars

\* ------------------------------------------------------------------------
\* The scanner on single objects (scanner.py)
\* ------------------------------------------------------------------------
\* The longest of the short contents given to the scanner, and the largest
\* chunk size it is configured with.
MaxBody == 4

MaxChunk == 3

\* The contents given to the scanner: every sequence of at most MaxBody bytes
\* out of "a", newline, the two bytes of "é" in UTF-8 (0xC3 0xA9) and NUL, and
\* one content longer than the sample of is_text_file: SAMPLE_SIZE - 1 times
\* "a" and then "é", whose second byte is the first one past the sample.
Bodies ==
    UNION {[1..n -> {97, 10, 195, 169, 0}] : n \in 0..MaxBody}
    \cup {[i \in 1..(SAMPLE_SIZE + 1) |->
             IF i < SAMPLE_SIZE THEN 97 ELSE IF i = SAMPLE_SIZE THEN 195 ELSE 169]}

\* StreamingBody.iter_chunks(chunk_size) (scanner.py:130): piece number n of
\* body, chunk_size bytes long but for the last one.
iter_chunks(body, chunk_size, n) ==
    SubSeq(body, (n - 1) * chunk_size + 1, Min(n * chunk_size, Len(body)))

\* An is_text_file that reads the sample whatever the key.
is_text_file_samples_first(s3_key, body) ==
    [text     |-> \/ HasTextExtension(s3_key)
                  \/ (Len(body) > 0 /\ SampleIsText(Slice(body, 0, SAMPLE_SIZE))),
     requests |-> <<"get_object_range">>]

\* scanner.py:27-71: whether the object is taken for text, and the requests
\* sent to find out. S3 answers the ranged read of an empty object with
\* InvalidRange, a ClientError, which makes the answer False.
is_text_file(s3_key, body) ==
    IF HasTextExtension(s3_key)
    THEN [text |-> TRUE, requests |-> <<>>]
    ELSE [text     |-> Len(body) > 0 /\ SampleIsText(Slice(body, 0, SAMPLE_SIZE)),
          requests |-> <<"get_object_range">>]

\* scanner.py:106-113: get_file_size and the size test.
GetFileSize ==
    /\ scanner.pc = "size"
    /\ scanner' =
          IF Len(scanner.body) > scanner.max_file_size
          THEN [scanner EXCEPT !.pc = "done",
                               !.requests = Append(@, "head_object"),
                               !.error_message = "File too large"]
          ELSE [scanner EXCEPT !.pc = "type",
                               !.requests = Append(@, "head_object")]
    /\ UNCHANGED <<queue, jobs, job_objects, findings, finding_seq, worker, faults,
                   shutdown_flag, db_manager, batch, client, detector>>

\* scanner.py:115-118: is_text_file and the return for a non-text file.
IsTextFile ==
    /\ scanner.pc = "type"
    /\ \E answer \in {is_text_file(scanner.s3_key, scanner.body)} :
          scanner' = [scanner EXCEPT
                         !.pc = IF answer.text THEN "open" ELSE "done",
                         !.requests = @ \o answer.requests,
                         !.text_file = IF answer.text THEN "text" ELSE "non-text",
                         !.error_message = IF answer.text THEN NULL
                                           ELSE "Non-text file, skipped"]
    /\ UNCHANGED <<queue, jobs, job_objects, findings, finding_seq, worker, faults,
                   shutdown_flag, db_manager, batch, client, detector>>

\* scanner.py:123-127: get_object; the reader starts with line_number 0 and
\* an empty buffer.
GetObject ==
    /\ scanner.pc = "open"
    /\ scanner' = [scanner EXCEPT !.pc = "read",
                                  !.requests = Append(@, "get_object"),
                                  !.reader = NewReader]
    /\ UNCHANGED <<queue, jobs, job_objects, findings, finding_seq, worker, faults,
                   shutdown_flag, db_manager, batch, client, detector>>

\* scanner.py:130-151: one iteration of the chunk loop. lines records the
\* (line_number, line) pairs given to scan_line.
ReadChunk ==
    /\ scanner.pc = "read"
    /\ scanner.chunks * scanner.chunk_size < Len(scanner.body)
    /\ \E chunk \in {iter_chunks(scanner.body, scanner.chunk_size, scanner.chunks + 1)} :
          LET lines == SplitLines(scanner.reader.buffer \o DecodeChunk(chunk))
          IN  scanner' = [scanner EXCEPT
                             !.chunks = @ + 1,
                             !.requests = Append(@, "read"),
                             !.reader = ProcessChunk(@, chunk),
                             !.lines = @ \o [i \in 1..(Len(lines) - 1) |->
                                                [line_number |-> scanner.reader.line_number + i,
                                                 line        |-> lines[i]]]]
    /\ UNCHANGED <<queue, jobs, job_objects, findings, finding_seq, worker, faults,
                   shutdown_flag, db_manager, batch, client, detector>>

\* scanner.py:153-169: the body is exhausted; the remaining buffer, if it is
\* not empty, is one more line, and the findings are returned without an
\* error message.
ScanRemaining ==
    /\ scanner.pc = "read"
    /\ scanner.chunks * scanner.chunk_size >= Len(scanner.body)
    /\ scanner' = [scanner EXCEPT
                      !.pc = "done",
                      !.reader = ProcessRemaining(@),
                      !.lines = IF scanner.reader.buffer # <<>>
                                THEN Append(@, [line_number |-> scanner.reader.line_number + 1,
                                                line        |-> scanner.reader.buffer])
                                ELSE @,
                      !.error_message = NULL]
    /\ UNCHANGED <<queue, jobs, job_objects, findings, finding_seq, worker, faults,
                   shutdown_flag, db_manager, batch, client, detector>>

\* The scanner has been given one object: a key, its content, the chunk size
\* and the maximum file size of its configuration. No message is enqueued.
ScanInit ==
    /\ \E s3_key \in {"a.txt", "blob", "UP.TXT"}, body \in Bodies,
          chunk_size \in 1..MaxChunk, max_file_size \in {MaxBody - 1, 2 * SAMPLE_SIZE} :
          /\ Len(body) > MaxBody => (s3_key = "blob" /\ chunk_size = 1)
          /\ scanner = [NoScan EXCEPT !.pc = "size",
                                      !.s3_key = s3_key,
                                      !.body = body,
                                      !.chunk_size = chunk_size,
                                      !.max_file_size = max_file_size]
    /\ queue = [m \in MessageIds |-> [state |-> "none", receive_count |-> 0]]
    /\ jobs = [j \in {"j1"} |->
                 [status |-> "running", total_objects |-> Cardinality(ObjectIds),
                  completed_objects |-> 0, failed_objects |-> 0, total_findings |-> 0]]
    /\ job_objects = [o \in ObjectIds |->
                        [object_id     |-> o,
                         job_id        |-> "j1",
                         s3_key        |-> ObjectKeys[o],
                         status        |-> "pending",
                         findings_count |-> 0,
                         error_message |-> NULL,
                         attempts      |-> 0,
                         scanned_at    |-> NULL]]
    /\ findings = {}
    /\ finding_seq = 1
    /\ worker = [w \in Workers |-> Idle]
    /\ faults = 0
    /\ shutdown_flag = [w \in Workers |-> FALSE]
    /\ db_manager = [w \in Workers |-> "open"]
    /\ batch = [w \in Workers |-> <<>>]
    /\ client = NoListing
    /\ detector = NoLine

ScanNext ==
    \/ GetFileSize
    \/ IsTextFile
    \/ GetObject
    \/ ReadChunk
    \/ ScanRemaining

ScanSpec == ScanInit /\ [][ScanNext]_vars

\* The steps of worker w that are calls that return: those of process_message
\* and the exit from run(). (Nothing makes a poll return a message, a
\* request fail or a signal arrive.)
Progress(w) ==
    \/ ParseMessage(w)
    \/ LookupObject(w)
    \/ MarkScanning(w)
    \/ ScanFile(w)
    \/ InsertFindings(w)
    \/ LoadObject(w)
    \/ CommitResults(w)
    \/ DeleteMessage(w)
    \/ Stop(w)

\* RunSpec with every blocking call of every worker returning.
LiveRunSpec == RunSpec /\ \A w \in Workers : WF_vars(Progress(w))

\* ------------------------------------------------------------------------
\* Properties
\* ------------------------------------------------------------------------
\* The committed finding rows of job object o.
Rows(table, o) == {r \in table : r.object_id = o}

\* Every finding of the list found has its row for job object o in table.
Stored(found, o, job_id, table) ==
    \A k \in 1..Len(found) :
        \E r \in table : FindingKey(r) = FindingKey(FindingData(o, job_id, found[k]))

\* Worker w is inside one of the two database sessions of process_message for
\* an existing job object.
InSession(wr) ==
    wr.session = "open" /\ wr.pc \in {"mark_scanning", "insert", "load", "commit"}

\* The step is a persistence fault raised in worker w's open session.
Raises(w) ==
    /\ InSession(worker[w])
    /\ faults' = faults + 1
    /\ worker'[w] # worker[w]

\* C1 (as amended): a persistence fault raised in one of the two database
\* sessions of process_message, for a well-formed work item whose job object
\* exists, is caught: the worker is back in its polling loop, delete_message is
\* not called (the queue is as it was, the message undeleted), and the
\* committed tables are as they were when the failing transaction began. On a
\* first delivery that leaves the status pending when the fault is in the
\* session that marks the object scanning, and scanning when it is in the
\* results session.
C1_FaultLeavesCommittedState ==
    [][\A w \in Workers :
          Raises(w) =>
              LET wr == worker[w]
              IN  /\ worker'[w].pc = "idle"
                  /\ queue' = queue
                  /\ job_objects' = job_objects
                  /\ findings' = findings
                  /\ queue[wr.msg].receive_count = 1 =>
                        /\ queue'[wr.msg].state \in {"inflight", "visible"}
                        /\ job_objects'[wr.object_id].status =
                              IF wr.pc = "mark_scanning" THEN "pending" ELSE "scanning"]_vars

\* C1 as stated: after any exception raised while process_message handles the
\* item, the committed status of the job object is scanning.
C1_FaultLeavesScanning ==
    [][\A w \in Workers :
          Raises(w) => job_objects'[worker[w].object_id].status = "scanning"]_vars

\* A fault in the results session of a first delivery has been caught: the
\* workers are idle, the message is still in flight and the object scanning.
C1_Witness ==
    /\ faults = 1
    /\ \A w \in Workers : worker[w].pc = "idle"
    /\ \E m \in ObjectIds :
          /\ queue[m].receive_count = 1
          /\ queue[m].state = "inflight"
          /\ job_objects[m].status = "scanning"

\* scan_file has returned Completed (no error_message) to the worker.
ScanCompleted(wr) ==
    /\ wr.object_id # 0
    /\ wr.error_message = NULL
    /\ wr.pc \in {"insert", "load", "commit", "delete"}

\* C2: when the scan of a job object returns Completed, the worker does not
\* touch the queue before its results session has committed; the commit makes
\* every finding of the scan durable and sets the status completed; and when
\* the worker calls delete_message the findings are in the table (and, the
\* message having been delivered once only, the status is completed).
C2_AckAfterCommit ==
    [][\A w \in Workers :
          LET wr == worker[w]
              o  == wr.object_id
          IN  ScanCompleted(wr) =>
                /\ (wr.pc # "delete" /\ worker'[w] # wr) => queue' = queue
                /\ (wr.pc = "commit" /\ worker'[w].pc = "delete") =>
                      /\ job_objects'[o].status = "completed"
                      /\ Stored(wr.findings, o, wr.data.job_id, findings')
                /\ wr.pc = "delete" =>
                      /\ Stored(wr.findings, o, wr.data.job_id, findings)
                      /\ queue[wr.msg].receive_count = 1 =>
                            job_objects[o].status = "completed"]_vars

\* A message has been deleted after its object's findings were committed with
\* the status completed, no request having failed.
C2_Witness ==
    /\ faults = 0
    /\ \E m \in ObjectIds :
          /\ queue[m].state = "deleted"
          /\ queue[m].receive_count = 1
          /\ job_objects[m].status = "completed"
          /\ Rows(findings, m) # {}

\* C3: once the status of a job object is completed, failed or skipped, no
\* step changes it.
C3_TerminalStatusIsFinal ==
    [][\A o \in ObjectIds :
          job_objects[o].status \in {"completed", "failed", "skipped"} =>
              job_objects'[o].status = job_objects[o].status]_vars

\* A finding row without its surrogate key.
RowData(r) == [c \in DOMAIN r \ {"finding_id"} |-> r[c]]

\* The findings of a scan of each job object's file with no request failing.
FullScan == [o \in ObjectIds |-> scan_file_streaming(ObjectKeys[o], NoFault).findings]

\* The rows one processing of job object o, with no request failing, commits.
SingleProcessing(o) ==
    {FindingData(o, job_objects[o].job_id, FullScan[o][k]) : k \in 1..Len(FullScan[o])}

\* C4: whatever the interleaving of the workers handling a message and its
\* redeliveries, no two rows of findings have the same (object_id,
\* finding_type, line_number, column_start, value_hash), and the rows of a job
\* object, once there are any and whenever its status is completed, are those
\* of one processing of it.
C4_NoDuplicateFindings ==
    /\ \A r1, r2 \in findings : FindingKey(r1) = FindingKey(r2) => r1 = r2
    /\ \A o \in ObjectIds :
          (Rows(findings, o) # {} \/ job_objects[o].status = "completed") =>
              {RowData(r) : r \in Rows(findings, o)} = SingleProcessing(o)

\* Both workers hold the same message with the findings of its object, whose
\* rows one of them has committed and the other has then tried to insert.
C4_Witness ==
    /\ worker["w1"].msg = worker["w2"].msg
    /\ \A w \in Workers : ScanCompleted(worker[w]) /\ worker[w].findings # <<>>
    /\ \E w \in Workers :
          /\ worker[w].pc \in {"load", "commit"}
          /\ worker[w].pending = {}
          /\ Rows(findings, worker[w].object_id) # {}

\* The rows of the findings list a worker holds.
FindingsData(wr) ==
    [k \in 1..Len(wr.findings) |->
        FindingData(wr.object_id, wr.data.job_id, wr.findings[k])]

\* C5: on every reachable findings table and with every findings list a worker
\* holds for a job object, a second bulk_insert_findings of the list adds no
\* row, so that the table has the same rows and the same number of rows as
\* after the first; and bulk_insert_findings of the empty list adds no row
\* and takes no sequence value.
C5_BulkInsertIdempotent ==
    /\ bulk_insert_findings(findings, finding_seq, <<>>) = [rows |-> {}, seq |-> finding_seq]
    /\ \A w \in Workers :
          worker[w].object_id # 0 =>
              LET first  == bulk_insert_findings(findings, finding_seq, FindingsData(worker[w]))
                  once   == commit(findings, first.rows)
                  second == bulk_insert_findings(once, first.seq, FindingsData(worker[w]))
                  twice  == commit(once, second.rows)
              IN  /\ second.rows = {}
                  /\ twice = once
                  /\ Cardinality(twice) = Cardinality(once)

\* A redelivered message: the rows of its object are committed, and the
\* worker's INSERT of the same findings has added none.
C5_Witness ==
    \E w \in Workers :
        /\ worker[w].pc = "load"
        /\ ScanCompleted(worker[w])
        /\ worker[w].findings # <<>>
        /\ worker[w].pending = {}
        /\ Cardinality(Rows(findings, worker[w].object_id)) = Len(worker[w].findings)
        /\ \A v \in Workers \ {w} : worker[v].pc = "idle"

\* Worker w takes the step.
Steps(w) == worker'[w] # worker[w]

\* C6: the rows of a job object change only in the commit of a results
\* session, which stores every finding of that processing and sets the status
\* completed in the same step; a results session for a Completed scan either
\* commits both or, on a fault, leaves findings and job_objects as they were;
\* and outside its two sessions (scanning, or back in the polling loop) a
\* worker has no open session and no uncommitted row.
C6_ResultsAtomic ==
    [][/\ \A o \in ObjectIds :
             Rows(findings', o) # Rows(findings, o) =>
                 /\ job_objects'[o].status = "completed"
                 /\ \E w \in Workers :
                       /\ worker[w].pc = "commit" /\ worker[w].object_id = o
                       /\ worker'[w].pc = "delete"
                       /\ Stored(worker[w].findings, o, worker[w].data.job_id, findings')
       /\ \A w \in Workers :
             LET wr == worker[w]
                 o  == wr.object_id
             IN  /\ (ScanCompleted(wr) /\ InSession(wr) /\ Steps(w)) =>
                       \/ /\ worker'[w].pc = "delete"
                          /\ job_objects'[o].status = "completed"
                          /\ Stored(wr.findings, o, wr.data.job_id, findings')
                       \/ /\ worker'[w].pc # "delete"
                          /\ findings' = findings
                          /\ job_objects' = job_objects
                 /\ worker'[w].pc \in {"idle", "scan"} =>
                       /\ worker'[w].session = "closed"
                       /\ worker'[w].pending = {}]_vars

\* A fault in a results session that had inserted rows has been rolled back:
\* sequence values are gone, no row is stored and the object is scanning.
C6_Witness ==
    /\ faults = 1
    /\ finding_seq > 1
    /\ findings = {}
    /\ \A w \in Workers : worker[w].pc = "idle" /\ worker[w].session = "closed"
    /\ \E o \in ObjectIds : job_objects[o].status = "scanning"

\* C7: a worker whose scan met an object-store fault (at head_object, at the
\* sample read, at get_object or at the read of a chunk) does not delete the
\* message.
C7_ObjectStoreFaultNotAcked ==
    [][\A w \in Workers :
          (worker[w].fault # NoFault /\ Steps(w)) =>
              (queue[worker[w].msg].state # "deleted" =>
                  queue'[worker[w].msg].state # "deleted")]_vars

\* C8: the commit of a results session after a scan that returned
\* Failed(reason) sets the status failed, stores reason as error_message,
\* sets attempts to the loaded value plus one (the committed value plus one
\* when the message was delivered once only), adds no finding row, and is
\* followed by delete_message; a deleted message is never received again.
C8_FailedRecorded ==
    [][/\ \A w \in Workers :
             LET wr == worker[w]
                 o  == wr.object_id
             IN  (wr.pc = "commit" /\ wr.error_message # NULL /\ Steps(w) /\ ~Raises(w)) =>
                     /\ worker'[w].pc = "delete"
                     /\ job_objects'[o].status = "failed"
                     /\ job_objects'[o].error_message = wr.error_message
                     /\ job_objects'[o].attempts = wr.obj.attempts + 1
                     /\ queue[wr.msg].receive_count = 1 =>
                           job_objects'[o].attempts = job_objects[o].attempts + 1
                     /\ findings' = findings
       /\ \A m \in MessageIds :
             queue[m].state = "deleted" => queue'[m] = queue[m]]_vars

\* An oversize object has been recorded as failed with its reason and two
\* status updates, and its message is deleted.
C8_Witness ==
    \E o \in ObjectIds :
        /\ job_objects[o].status = "failed"
        /\ job_objects[o].error_message = "File too large"
        /\ job_objects[o].attempts = 2
        /\ queue[o].state = "deleted"

\* C9: a worker whose stream broke after findings had been made inserts no
\* row and commits no row, and its results session sets the status failed;
\* when the message was delivered once only, the object has no finding row
\* and is not completed.
C9_PartialFindingsDiscarded ==
    [][\A w \in Workers :
          LET wr == worker[w]
              o  == wr.object_id
          IN  (wr.fault.at = "chunk" /\ wr.findings # <<>>) =>
                  /\ wr.pc \in {"load", "commit", "delete"}
                  /\ wr.pending = {}
                  /\ Steps(w) => findings' = findings /\ worker'[w].pending = {}
                  /\ (wr.pc = "commit" /\ worker'[w].pc = "delete") =>
                        job_objects'[o].status = "failed"
                  /\ queue[wr.msg].receive_count = 1 =>
                        /\ Rows(findings', o) = {}
                        /\ job_objects'[o].status # "completed"]_vars

\* A worker whose stream broke after a finding had been made has committed its
\* results session.
C9_Witness ==
    \E w \in Workers :
        /\ worker[w].fault.at = "chunk"
        /\ worker[w].findings # <<>>
        /\ worker[w].pc = "delete"
        /\ job_objects[worker[w].object_id].status = "failed"

\* C10: a worker whose scan classified the content as non-text holds no
\* finding and inserts no row; the commit of its results session sets the
\* status failed with the reason as error_message, adds no finding row and is
\* followed by delete_message; and no status is ever skipped.
C10_NonTextFails ==
    [][/\ \A w \in Workers :
             LET wr == worker[w]
                 o  == wr.object_id
             IN  wr.error_message = "Non-text file, skipped" =>
                     /\ wr.findings = <<>>
                     /\ wr.pending = {}
                     /\ (wr.pc = "commit" /\ Steps(w) /\ ~Raises(w)) =>
                           /\ worker'[w].pc = "delete"
                           /\ job_objects'[o].status = "failed"
                           /\ job_objects'[o].error_message = "Non-text file, skipped"
                           /\ findings' = findings
       /\ \A o \in ObjectIds : job_objects'[o].status # "skipped"]_vars

\* The object with a NUL byte has been recorded as failed with the non-text
\* reason, without a request failing, and its message is deleted.
C10_Witness ==
    /\ faults = 0
    /\ \E o \in ObjectIds :
          /\ job_objects[o].s3_key = "blob"
          /\ job_objects[o].status = "failed"
          /\ job_objects[o].error_message = "Non-text file, skipped"
          /\ Rows(findings, o) = {}
          /\ queue[o].state = "deleted"

\* Worker w has parsed a well-formed work item for which job_objects has no
\* row, and is in the session of the lookup.
NoScanUnit(wr) ==
    /\ wr.session = "open"
    /\ wr.object_id = 0
    /\ \A o \in DOMAIN job_objects :
          job_objects[o].job_id # wr.data.job_id \/ job_objects[o].s3_key # wr.data.s3_key

\* C11: a worker holding a well-formed work item whose (job_id, s3_key) has no
\* row in job_objects only looks the row up and deletes the message: it never
\* reaches the status update or the scan, its steps leave job_objects
\* (no row created, no status changed), findings and the sequence as they
\* were, and its delete_message, when the request does not fail and the
\* message has not been delivered again meanwhile, deletes the message.
C11_MissingObjectAcked ==
    [][\A w \in Workers :
          LET wr == worker[w]
          IN  NoScanUnit(wr) =>
                /\ wr.pc \in {"lookup", "delete"}
                /\ Steps(w) =>
                      /\ job_objects' = job_objects
                      /\ findings' = findings
                      /\ finding_seq' = finding_seq
                      /\ worker'[w].pc \in {"delete", "idle"}
                      /\ (wr.pc = "lookup" /\ faults' = faults) => worker'[w].pc = "delete"
                      /\ (/\ wr.pc = "delete"
                          /\ faults' = faults
                          /\ wr.receipt = queue[wr.msg].receive_count) =>
                            queue'[wr.msg].state = "deleted"]_vars

\* The work item for ghost.txt, which has no row, has been deleted after one
\* delivery without a request failing; every job object is as it was created.
C11_Witness ==
    /\ faults = 0
    /\ \E m \in MessageIds :
          /\ MessageBody[m] = WorkItem("ghost.txt")
          /\ queue[m].state = "deleted"
          /\ queue[m].receive_count = 1
    /\ \A o \in ObjectIds : job_objects[o].status = "pending" /\ job_objects[o].attempts = 0
    /\ findings = {}

\* The body is not JSON, or its JSON value is not an object with the three
\* required fields.
Malformed(body) ==
    body.json # "object" \/ ~(required_fields \subseteq DOMAIN body.fields)

\* C12: a worker that parses a malformed body goes on to delete the message,
\* with no session opened; the exception handler is not reached.
C12_MalformedAcked ==
    [][\A w \in Workers :
          (/\ worker[w].pc = "parse"
           /\ Malformed(MessageBody[worker[w].msg])
           /\ Steps(w)) =>
              /\ worker'[w].pc = "delete"
              /\ worker'[w].session = "closed"]_vars

\* The findings of the reader when the whole content of each object is
\* delivered as one chunk.
WholeScan ==
    [k \in DOMAIN S3Objects |->
        ProcessRemaining(ProcessChunk(NewReader, S3Objects[k])).findings]

\* C13: a worker whose scan of valid UTF-8 content delivered in two chunks
\* has completed holds the findings (line numbers, columns, hashes, contexts,
\* order) of the same content delivered as one chunk.
C13_SplitInvariant ==
    \A w \in Workers :
        LET wr == worker[w]
        IN  ScanCompleted(wr) =>
              LET body == S3Objects[wr.data.s3_key]
              IN  (Utf8Valid(body) /\ NumChunks(body) = 2) =>
                      wr.findings = WholeScan[wr.data.s3_key]

\* C14: the scan of an object larger than MAX_FILE_SIZE sends head_object and
\* nothing else to the object store (no sample is read, no chunk) and, the
\* head_object having succeeded, returns no finding and the error "File too
\* large"; an object of exactly MAX_FILE_SIZE bytes is not rejected: its scan
\* goes on to get_object and, no request failing, completes.
C14_OversizeNotRead ==
    [][\A w \in Workers :
          (/\ worker[w].pc = "scan"
           /\ Steps(w)
           /\ worker[w].data.s3_key \in DOMAIN S3Objects) =>
              LET size  == Len(S3Objects[worker[w].data.s3_key])
                  after == worker'[w]
              IN  /\ size > MAX_FILE_SIZE =>
                        /\ after.requests = <<"head_object">>
                        /\ after.findings = <<>>
                        /\ after.fault = NoFault => after.error_message = "File too large"
                        /\ after.pc = "load"
                  /\ size = MAX_FILE_SIZE =>
                        /\ after.error_message # "File too large"
                        /\ after.fault = NoFault =>
                              /\ after.error_message = NULL
                              /\ \E k \in 1..Len(after.requests) :
                                    after.requests[k] = "get_object"]_vars

\* The scan of big.log, one byte over the maximum, has returned "File too
\* large" to a worker after a single head_object.
C14_Witness ==
    \E w \in Workers :
        /\ worker[w].pc = "load"
        /\ Len(S3Objects[worker[w].data.s3_key]) = MAX_FILE_SIZE + 1
        /\ worker[w].error_message = "File too large"
        /\ worker[w].requests = <<"head_object">>

\* C15: the scan of a zero-byte object, whatever its key, during which no
\* request fails returns Completed: no finding and no error message.
C15_EmptyCompletes ==
    [][\A w \in Workers :
          (/\ worker[w].pc = "scan"
           /\ Steps(w)
           /\ worker[w].data.s3_key \in DOMAIN S3Objects
           /\ Len(S3Objects[worker[w].data.s3_key]) = 0
           /\ worker'[w].fault = NoFault) =>
              /\ worker'[w].findings = <<>>
              /\ worker'[w].error_message = NULL]_vars

C17_GracefulShutdown ==
    [][\A w \in Workers :
          LET wr == worker[w]
          IN  /\ shutdown_flag[w] => shutdown_flag'[w]
              /\ (shutdown_flag'[w] /\ ~shutdown_flag[w]) =>
                    \/ worker'[w] = wr /\ queue' = queue
                    \/ wr.pc = "idle" /\ worker'[w].pc = "idle"
              /\ (shutdown_flag[w] /\ Steps(w)) =>
                    /\ wr.pc = "idle" => worker'[w].pc = "stopped" /\ queue' = queue
                    /\ wr.pc # "idle" => worker'[w].pc \notin {"stopped", "parse"}
              /\ worker'[w].pc = "stopped" <=> db_manager'[w] = NULL
              /\ (worker'[w].pc = "stopped" /\ wr.pc # "stopped") =>
                    shutdown_flag[w] /\ wr.pc = "idle"]_vars

\* A worker whose flag was set has left run() with its pool released, after
\* the message had been processed and deleted; the other worker runs on.
C17_Witness ==
    \E w \in Workers :
        /\ shutdown_flag[w]
        /\ worker[w].pc = "stopped"
        /\ db_manager[w] = NULL
        /\ \A v \in Workers \ {w} : ~shutdown_flag[v] /\ db_manager[v] = "open"
        /\ \E m \in MessageIds : queue[m].state = "deleted"

C19_ShutdownTerminates ==
    \A w \in Workers : shutdown_flag[w] ~> (worker[w].pc = "stopped")

\* Every worker has left run() after polls had failed: the message is still
\* in the queue and has never been received.
C19_Witness ==
    /\ faults = MaxFaults
    /\ \A w \in Workers : shutdown_flag[w] /\ worker[w].pc = "stopped"
    /\ \E m \in MessageIds : queue[m].state = "visible" /\ queue[m].receive_count = 0

\* The step is a failed poll of worker w: a request fails while w is at the
\* test of the loop and no other worker moves.
PollRaises(w) ==
    /\ worker[w].pc = "idle"
    /\ faults' = faults + 1
    /\ \A v \in Workers \ {w} : worker'[v] = worker[v]

\* C20: a failed poll leaves the worker in the loop of run(), at its test,
\* with its pool open, and changes neither the queue nor job_objects nor
\* findings nor the flag; and a worker at the test of the loop whose flag is
\* not set polls: its next step is the return of a poll (a message dispatched,
\* or not dispatched because the flag was set meanwhile).
C20_PollFailureHarmless ==
    [][\A w \in Workers :
          /\ PollRaises(w) =>
                /\ worker'[w] = Idle
                /\ db_manager'[w] = "open"
                /\ queue' = queue
                /\ job_objects' = job_objects
                /\ findings' = findings
                /\ shutdown_flag' = shutdown_flag
          /\ (worker[w].pc = "idle" /\ ~shutdown_flag[w] /\ Steps(w)) =>
                /\ worker'[w].pc \in {"parse", "idle"}
                /\ \E m \in MessageIds : queue'[m].receive_count = queue[m].receive_count + 1]_vars

\* Polls have failed: the workers are in their loops, not signalled, with
\* their pools open, and the message is still visible, never received.
C20_Witness ==
    /\ faults = MaxFaults
    /\ \A w \in Workers :
          worker[w] = Idle /\ ~shutdown_flag[w] /\ db_manager[w] = "open"
    /\ \E m \in MessageIds : queue[m].state = "visible" /\ queue[m].receive_count = 0
    /\ \A o \in ObjectIds : job_objects[o].status = "pending"

\* ------------------------------------------------------------------------
\* C21
\* ------------------------------------------------------------------------
\* C21: a worker process has at most one work item in flight. It begins a
\* message (process_message is entered) only when the processing of the
\* previous one has returned (none of its locals is left), and it asks the
\* queue for messages only when no message is being processed and none of the
\* last batch is waiting. A worker has polled when a message's receive count
\* went up and the message is, with the receipt handle of this delivery, the
\* one the worker begins with or one that waits in its batch.
C21_OneItemInFlight ==
    [][\A w \in Workers :
          LET Starts == worker'[w].pc = "parse" /\ worker'[w] # worker[w]
              Polls  == \E m \in MessageIds :
                          /\ queue'[m].receive_count > queue[m].receive_count
                          /\ \/ /\ worker'[w].msg = m
                                /\ worker'[w].receipt = queue'[m].receive_count
                             \/ \E k \in 1..Len(batch'[w]) :
                                   batch'[w][k] = [msg     |-> m,
                                                   receipt |-> queue'[m].receive_count]
          IN  /\ Starts => worker[w] = Idle
              /\ Polls => worker[w] = Idle /\ batch[w] = <<>>]_vars

\* A worker is in the middle of the first message of a batch while the
\* second waits.
C21_Witness ==
    \E w \in Workers :
        /\ worker[w].pc \in {"scan", "commit", "delete"}
        /\ batch[w] # <<>>
        /\ Head(batch[w]).msg # worker[w].msg

\* ------------------------------------------------------------------------
\* C22
\* ------------------------------------------------------------------------
\* C22: no step of a worker changes a row of table jobs: total_objects,
\* completed_objects, failed_objects, total_findings and status stay as they
\* were when the job was created, whatever the workers complete or fail.
C22_JobRowsUntouched == [][jobs' = jobs]_vars

\* A worker has completed an object and stored its findings, and the
\* counters of the job are still zero.
C22_Witness ==
    /\ \E o \in ObjectIds : job_objects[o].status = "completed" /\ Rows(findings, o) # {}
    /\ jobs["j1"].completed_objects = 0
    /\ jobs["j1"].total_findings = 0

\* ------------------------------------------------------------------------
\* C23
\* ------------------------------------------------------------------------
\* C23: under the steps of the workers the rows of table findings only grow:
\* every row of the table is in it, unchanged, after the step (no UPDATE and
\* no DELETE of a finding), and no row of job_objects or of jobs is deleted.
C23_FindingsOnlyGrow ==
    [][/\ findings \subseteq findings'
       /\ DOMAIN job_objects' = DOMAIN job_objects
       /\ DOMAIN jobs' = DOMAIN jobs]_vars

\* An object with stored findings has been scanned and completed a second
\* time, and its rows are still there.
C23_Witness ==
    \E o \in ObjectIds :
        /\ job_objects[o].status = "completed"
        /\ job_objects[o].attempts >= 4
        /\ Rows(findings, o) # {}

\* ------------------------------------------------------------------------
\* C24
\* ------------------------------------------------------------------------
\* C24: the raw value of a match is never persisted: for every finding of a
\* job object's file, the row stored for it holds the matched text in none of
\* its text columns, the context among them.
C24_RawValueNotPersisted ==
    \A o \in ObjectIds : \A k \in 1..Len(FullScan[o]) : \A r \in Rows(findings, o) :
        LET f == FullScan[o][k]
            Contains(t, v) == \E i \in 0..(Len(t) - Len(v)) : SubSeq(t, i + 1, i + Len(v)) = v
        IN  FindingKey(r) = FindingKey(FindingData(o, r.job_id, f))
                => /\ ~Contains(r.context, f.value)
                   /\ "value" \notin DOMAIN r

\* ------------------------------------------------------------------------
\* C25
\* ------------------------------------------------------------------------
\* C25: a client that starts the listing without a cursor and follows every
\* next_cursor while has_more is true ends with pages that hold every
\* matching finding that existed at the first request exactly once, in
\* strictly descending order of finding_id, whatever the workers commit
\* between the requests.
C25_PaginationStable ==
    /\ client.phase # "none" =>
          \A k \in 1..(Len(client.pages) - 1) : client.pages[k] > client.pages[k + 1]
    /\ client.phase = "done" =>
          \A id \in client.existed :
              Cardinality({k \in 1..Len(client.pages) : client.pages[k] = id}) = 1

\* ------------------------------------------------------------------------
\* C26
\* ------------------------------------------------------------------------
\* C26: for a line that holds one token of 13 to 19 digits, bare or grouped
\* with hyphens or spaces, scan_line returns a credit_card finding exactly
\* when the Luhn checksum of the token's digits is valid; every credit_card
\* finding it returns has high confidence.
C26_LuhnDecides ==
    (detector.scanned /\ detector.family = "card") =>
        LET digits  == SelectSeq(detector.text, LAMBDA c : c \in DIGIT)
            emitted == {k \in 1..Len(detector.findings) :
                           detector.findings[k].finding_type = "credit_card"}
        IN  /\ Len(digits) \in 13..19
            /\ (emitted # {}) <=> luhn_check(digits)
            /\ \A k \in emitted : detector.findings[k].confidence = "high"

\* ------------------------------------------------------------------------
\* C27
\* ------------------------------------------------------------------------
\* C27: for a line that holds one SSN candidate (nine digits in groups of 3,
\* 2 and 4, each separator absent, a hyphen or a space), scan_line returns no
\* ssn finding when the first three digits are 000 or 666 or the first digit
\* is 9, and exactly one ssn finding otherwise.
C27_SsnValidity ==
    (detector.scanned /\ detector.family = "ssn") =>
        LET digits   == SelectSeq(detector.text, LAMBDA c : c \in DIGIT)
            emitted  == {k \in 1..Len(detector.findings) :
                            detector.findings[k].finding_type = "ssn"}
            rejected == \/ SubSeq(digits, 1, 3) \in {<<48, 48, 48>>, <<54, 54, 54>>}
                        \/ digits[1] = 57
        IN  /\ Len(digits) = 9
            /\ Cardinality(emitted) = IF rejected THEN 0 ELSE 1

\* The detector has scanned "ssn 666-45-6789" and returned no finding.
C27_Witness ==
    /\ detector.scanned
    /\ detector.family = "ssn"
    /\ detector.text = <<115, 115, 110, 32, 54, 54, 54, 45, 52, 53, 45, 54, 55, 56, 57>>
    /\ detector.findings = <<>>

\* ------------------------------------------------------------------------
\* C28
\* ------------------------------------------------------------------------
\* C28: for a line that holds one ten-digit number, with or without
\* separators and a country code 1, scan_line returns no phone_us finding
\* when the ten digits begin with the area code 000 or 555 and a phone_us
\* finding for every other number, an exchange of 555 or an area code that
\* begins with 1 notwithstanding.
C28_PhoneValidity ==
    (detector.scanned /\ detector.family = "phone") =>
        LET digits  == SelectSeq(detector.text, LAMBDA c : c \in DIGIT)
            number  == SubSeq(digits, Len(digits) - 9, Len(digits))
            emitted == {k \in 1..Len(detector.findings) :
                           detector.findings[k].finding_type = "phone_us"}
        IN  /\ Len(digits) \in {10, 11}
            /\ Len(digits) = 11 => digits[1] = 49
            /\ IF SubSeq(number, 1, 3) \in {<<48, 48, 48>>, <<53, 53, 53>>}
               THEN emitted = {}
               ELSE emitted # {}

\* ------------------------------------------------------------------------
\* C29
\* ------------------------------------------------------------------------
\* C29: value_hash depends on the normalized value alone. Of two findings of
\* the same type, from two lines, the hashes are equal exactly when the
\* normalized values are: the digits of an SSN or a card number (the
\* separators do not count), the ten digits of a phone number (neither the
\* separators nor a country code 1 count), the lower-case form of an e-mail
\* address.
C29_HashOfNormalizedValue ==
    (detector.scanned /\ detector.last # <<>>) =>
        \A i \in 1..Len(detector.findings) : \A j \in 1..Len(detector.last) :
            LET f == detector.findings[i]
                g == detector.last[j]
                OnlyDigits(v) == SelectSeq(v, LAMBDA c : c \in DIGIT)
                National(ds) == IF Len(ds) = 11 /\ ds[1] = 49 THEN Tail(ds) ELSE ds
                Normal(h) ==
                    CASE h.finding_type \in {"ssn", "credit_card"} -> OnlyDigits(h.value)
                      [] h.finding_type = "phone_us" -> National(OnlyDigits(h.value))
                      [] h.finding_type = "email" -> Lower(h.value)
                      [] OTHER -> h.value
            IN  f.finding_type = g.finding_type =>
                    ((f.value_hash = g.value_hash) <=> (Normal(f) = Normal(g)))

\* The detector has found the same e-mail address written in two ways, and
\* has given the two findings the same hash.
C29_Witness ==
    /\ detector.scanned
    /\ \E i \in 1..Len(detector.findings) : \E j \in 1..Len(detector.last) :
          /\ detector.findings[i].finding_type = "email"
          /\ detector.last[j].finding_type = "email"
          /\ detector.findings[i].value # detector.last[j].value
          /\ detector.findings[i].value_hash = detector.last[j].value_hash

\* ------------------------------------------------------------------------
\* C30
\* ------------------------------------------------------------------------
\* C30: whatever the line and the match, the context get_context returns for
\* a finding has at most 203 characters (200 and the ellipsis) and holds the
\* whole matched text.
C30_ContextHoldsMatch ==
    detector.scanned =>
        \A k \in 1..Len(detector.findings) :
            LET context == detector.findings[k].context
                value   == detector.findings[k].value
            IN  /\ Len(context) <= 203
                /\ \E i \in 0..(Len(context) - Len(value)) :
                      SubSeq(context, i + 1, i + Len(value)) = value

\* C31: when a scan has streamed an object to its end, the (line_number,
\* line) pairs given to the detector are the fragments of the decoded content
\* between its newlines, numbered 1, 2, 3, ..., the last fragment being given
\* exactly when it is not empty, whatever the chunk size.
C31_LinesAreContentSplit ==
    (scanner.pc = "done" /\ scanner.error_message = NULL) =>
        LET fragments == SplitLines(DecodeChunk(scanner.body))
            expected  == IF fragments[Len(fragments)] = <<>>
                         THEN SubSeq(fragments, 1, Len(fragments) - 1)
                         ELSE fragments
        IN  scanner.lines =
                [i \in 1..Len(expected) |-> [line_number |-> i, line |-> expected[i]]]

\* C32: a chunk that is not valid UTF-8 does not end the scan and is not
\* dropped: after the iteration of the chunk loop that reads it the scan is
\* still reading, without an error message, and the lines it has given to the
\* detector in that iteration, each followed by a newline, and then the new
\* carry buffer are the old carry buffer followed by the bytes of the chunk,
\* one character for each byte; and when the body is exhausted the scan
\* returns without an error message, the remaining buffer having been given
\* to the detector as the last line if it is not empty.
C32_FallbackKeepsChunk ==
    [][/\ (scanner.pc = "read" /\ scanner.chunks * scanner.chunk_size < Len(scanner.body)) =>
            LET chunk  == iter_chunks(scanner.body, scanner.chunk_size, scanner.chunks + 1)
                handed == SubSeq(scanner'.lines, Len(scanner.lines) + 1, Len(scanner'.lines))
                Joined[k \in 0..Len(handed)] ==
                    IF k = 0 THEN <<>> ELSE Joined[k - 1] \o handed[k].line \o <<10>>
            IN  ~Utf8Valid(chunk) =>
                    /\ scanner'.pc = "read"
                    /\ scanner'.chunks = scanner.chunks + 1
                    /\ scanner'.error_message = NULL
                    /\ Joined[Len(handed)] \o scanner'.reader.buffer
                           = scanner.reader.buffer \o Latin1Decode(chunk)
       /\ (scanner.pc = "read" /\ scanner.chunks * scanner.chunk_size >= Len(scanner.body)) =>
            /\ scanner'.pc = "done"
            /\ scanner'.error_message = NULL
            /\ scanner.reader.buffer # <<>> =>
                  /\ Len(scanner'.lines) = Len(scanner.lines) + 1
                  /\ scanner'.lines[Len(scanner'.lines)].line = scanner.reader.buffer]_vars

\* A scan has returned without an error message after reading, among others,
\* a chunk that is not valid UTF-8, and has given the detector two lines.
C32_Witness ==
    /\ scanner.pc = "done"
    /\ scanner.error_message = NULL
    /\ scanner.chunks > 1
    /\ \E n \in 1..scanner.chunks :
          ~Utf8Valid(iter_chunks(scanner.body, scanner.chunk_size, n))
    /\ Len(scanner.lines) = 2

\* C33: the scan tests the size, then the type, then streams. The first
\* request is head_object; an object larger than the maximum is returned as
\* "File too large" after that one request, unclassified, also when its
\* content is binary; a key with an allow-listed extension is classified as
\* text without the ranged read of a sample; a key without one is classified
\* after head_object and one ranged read, and as non-text ("Non-text file,
\* skipped") when the first SAMPLE_SIZE bytes hold a NUL byte or are not
\* valid UTF-8; and get_object is sent only for an object classified as text.
C33_GatingOrder ==
    LET sample  == Slice(scanner.body, 0, SAMPLE_SIZE)
        Sent(r) == \E k \in 1..Len(scanner.requests) : scanner.requests[k] = r
    IN  /\ scanner.requests # <<>> => scanner.requests[1] = "head_object"
        /\ (scanner.requests # <<>> /\ Len(scanner.body) > scanner.max_file_size) =>
              /\ scanner.pc = "done"
              /\ scanner.error_message = "File too large"
              /\ scanner.requests = <<"head_object">>
              /\ scanner.text_file = "unknown"
        /\ (scanner.text_file # "unknown" /\ HasTextExtension(scanner.s3_key)) =>
              /\ scanner.text_file = "text"
              /\ ~Sent("get_object_range")
        /\ (scanner.text_file # "unknown" /\ ~HasTextExtension(scanner.s3_key)) =>
              /\ SubSeq(scanner.requests, 1, 2) = <<"head_object", "get_object_range">>
              /\ ((\E k \in 1..Len(sample) : sample[k] = 0) \/ ~Utf8Valid(sample)) =>
                    /\ scanner.text_file = "non-text"
                    /\ scanner.pc = "done"
                    /\ scanner.error_message = "Non-text file, skipped"
                    /\ Len(scanner.requests) = 2
        /\ Sent("get_object") => scanner.text_file = "text"
        /\ scanner.pc = "type" => ~Sent("get_object_range")

\* The scan of an object without an allow-listed extension whose content is
\* larger than the maximum and holds a NUL byte has returned.
C33_Witness ==
    /\ scanner.pc = "done"
    /\ ~HasTextExtension(scanner.s3_key)
    /\ Len(scanner.body) > scanner.max_file_size
    /\ \E k \in 1..Len(scanner.body) : scanner.body[k] = 0
    /\ scanner.error_message = "File too large"

\* C40: an object whose whole content is valid UTF-8 without a NUL byte is
\* not classified as non-text, whatever its key and its length.
C40_ValidUtf8IsText ==
    (/\ scanner.text_file # "unknown"
     /\ Utf8Valid(scanner.body)
     /\ \A k \in 1..Len(scanner.body) : scanner.body[k] # 0) =>
        scanner.text_file = "text"

\* C34: every answer to a request of the listing is as follows. A limit that
\* is not the text of a positive integer is rejected with status 400 and no
\* query is made. Otherwise, with the limit brought down to MAX_PAGE_SIZE and
\* the matching rows being the committed findings that pass the filters and
\* have an id below the cursor of the request, if it has one: the page holds
\* at most limit findings; has_more is true exactly when there are more than
\* limit matching rows; and a next_cursor is returned exactly when has_more
\* is true, and is then the encoding of the smallest finding_id of the page.
C34_PageShape ==
    [][client' # client =>
          LET params   == client'.params
              parsed   == ParseInt(params.limit)
              limit    == Min(parsed[1], MAX_PAGE_SIZE)
              given    == IF client.phase = "paging" THEN client.params.cursor ELSE None
              before   == IF client.phase = "paging" THEN client.pages ELSE <<>>
              page     == SubSeq(client'.pages, Len(before) + 1, Len(client'.pages))
              matching == {r \in findings :
                              /\ params.job_id # NULL => r.job_id = params.job_id
                              /\ params.finding_type # NULL =>
                                     r.finding_type = params.finding_type
                              /\ given # None =>
                                     r.finding_id < decode_cursor(given[1])[1]}
              has_more == client'.phase = "paging"
          IN  IF parsed = None \/ parsed[1] <= 0
              THEN client'.phase = "rejected" /\ client'.queries = 0
              ELSE /\ client'.phase \in {"paging", "done"}
                   /\ Len(page) <= limit
                   /\ has_more <=> Cardinality(matching) > limit
                   /\ has_more <=> params.cursor # None
                   /\ has_more =>
                         /\ page # <<>>
                         /\ \A k \in 1..Len(page) : page[Len(page)] <= page[k]
                         /\ params.cursor = <<encode_cursor(page[Len(page)])>>]_vars

\* ------------------------------------------------------------------------
\* C35
\* ------------------------------------------------------------------------
\* C35: a message is deleted from the queue only by the delete_message of the
\* worker that is processing it, and a worker comes to delete_message only
\* from the parse of a malformed body, from the lookup of a work item whose
\* (job_id, s3_key) has no row in job_objects, or from the commit of its
\* results session, which sets the status of the job object to completed or
\* failed. (A message that waits in a received batch is held by no worker at
\* its delete_message.)
C35_AckOnlyWhenSettled ==
    [][/\ \A m \in MessageIds :
            (queue[m].state # "deleted" /\ queue'[m].state = "deleted") =>
                \E w \in Workers :
                    worker[w].pc = "delete" /\ worker[w].msg = m /\ Steps(w)
       /\ \A w \in Workers :
            LET wr == worker[w]
            IN  (wr.pc # "delete" /\ worker'[w].pc = "delete") =>
                    CASE wr.pc = "parse"  -> Malformed(MessageBody[wr.msg])
                      [] wr.pc = "lookup" ->
                            \A o \in DOMAIN job_objects :
                                \/ job_objects[o].job_id # wr.data.job_id
                                \/ job_objects[o].s3_key # wr.data.s3_key
                      [] OTHER ->
                            /\ wr.pc = "commit"
                            /\ job_objects'[wr.object_id].status \in {"completed", "failed"}
                            /\ worker'[w].session = "closed"]_vars

\* ------------------------------------------------------------------------
\* C38
\* ------------------------------------------------------------------------
\* C38: when the lookup of the job object by (job_id, s3_key) fails with a
\* persistence fault, the worker does not go on to delete_message as it does
\* for an absent row: it returns to the polling loop and leaves the queue as
\* it was, the message staying in flight for redelivery.
C38_LookupFaultNotAcked ==
    [][\A w \in Workers :
          (worker[w].pc = "lookup" /\ Steps(w) /\ faults' # faults) =>
              /\ worker'[w].pc = "idle"
              /\ queue' = queue
              /\ queue'[worker[w].msg].state = "inflight"]_vars

\* ------------------------------------------------------------------------
\* C36
\* ------------------------------------------------------------------------
\* C36: a well-formed work item whose job object exists is not lost: once
\* its message has been deleted from the queue and every worker is back in
\* its polling loop, the status of the job object is completed or failed,
\* whatever requests have failed meanwhile.
C36_NeverSilentlyLost ==
    \A m \in ObjectIds :
        (/\ queue[m].state = "deleted"
         /\ \A w \in Workers : worker[w].pc = "idle") =>
            job_objects[m].status \in {"completed", "failed"}

\* ------------------------------------------------------------------------
\* C37
\* ------------------------------------------------------------------------
\* C37: the attempts counter of a job object changes only in a step that
\* sets its status to failed, and then goes up by exactly one; the steps that
\* set the status to scanning or to completed leave it as it was.
C37_AttemptsCountFailures ==
    [][\A o \in ObjectIds :
          /\ job_objects'[o].attempts # job_objects[o].attempts =>
                /\ job_objects'[o].status = "failed"
                /\ job_objects'[o].attempts = job_objects[o].attempts + 1
          /\ (job_objects'[o] # job_objects[o] /\ job_objects'[o].status = "failed") =>
                job_objects'[o].attempts = job_objects[o].attempts + 1]_vars

\* ------------------------------------------------------------------------
\* C39
\* ------------------------------------------------------------------------
\* C39: in every state a job object whose status is completed has no
\* error_message, and a job object has a scanned_at exactly when its status
\* is completed or failed.
C39_CompletedHasNoError ==
    \A o \in ObjectIds :
        /\ job_objects[o].status = "completed" => job_objects[o].error_message = NULL
        /\ job_objects[o].scanned_at # NULL <=>
               job_objects[o].status \in {"completed", "failed"}

====
